---- MODULE Spec2Model ----
(***************************************************************************)
(* The append-only, content-addressed provenance ledger: the object store  *)
(* (src/src/ledger/cas.py), the manifest store (src/src/ledger/manifest.py)*)
(* the session lock (src/src/ledger/locks.py) and the ingest driver        *)
(* (src/src/ledger/cli.py), run by two operating-system processes on one   *)
(* repository.  Every access to the shared file system is one step, so the *)
(* interleavings of the model are the interleavings of the system calls.   *)
(***************************************************************************)
EXTENDS Integers, Sequences, FiniteSets, TLC

\* Number of commands the processes run in all.
MaxCommands == 2

\* Length of the values of the environment variable that are enumerated.
MaxEnvLen == 2

Procs == {"A", "B"}
\* Contents of a source file: one byte of two values.  The empty byte string
\* <<>> is what a file holds between open(..., "w") and the first write.
Contents == {<<b>> : b \in {1, 2}}
\* The artifact file that is ingested and the transform definition file.
Files == {"a.bin", "t.py"}
\* The bytes of t.py: no artifact holds them.
TransformSource == <<3>>
NoFile == "none"

\* hashlib.sha256(b).hexdigest(): collision-free, and never the bytes themselves.
sha256_bytes(b) == [sha256 |-> b]
\* sha256_file(path): the digest of the bytes the file holds when it is read.
sha256_file(fs, path) == sha256_bytes(fs[path])
\* tf.name.encode("utf-8") for the transform file t.py
Utf8TransformName == <<116, 46, 112, 121>>

\* Ids of the artifacts the source files can hold.
ArtifactIds == {sha256_bytes(c) : c \in Contents}
\* Parent ids a caller may pass: any id, with or without a manifest.
ParentLists == {<<>>} \cup {<<d>> : d \in ArtifactIds}

VARIABLES
    src,               \* source files outside the ledger: path -> bytes
    objects,           \* ledger/objects/<id[:2]>/<id>: digest -> bytes (partial)
    tmps,              \* ledger/objects/<id[:2]>/<id>.tmp: digest -> bytes (partial)
    nodes,             \* ledger/nodes/<id>.json: digest -> text (partial)
    refs,              \* ledger/refs/<name>: name -> text (partial)
    pc,                \* where each process stands
    args,              \* argparse.Namespace of the running command
    artifact_id,       \* cmd_ingest: artifact_id
    transform,         \* cmd_ingest: (transform_name, transform_digest)
    sb,                \* store_blob: its arguments and where it returns to
    buf,               \* store_blob: the bytes src.read_bytes() returned
    fd,                \* store_blob: where the file opened by write_bytes now lives
    node,              \* write_node_manifest: the Node being written
    result,            \* how the last command of a process ended
    commands,          \* number of commands the processes have started
    before,            \* history: the destination's bytes when store_blob tested it
    seen,              \* history: the text a reader first read from each manifest
    environ,           \* os.environ: name -> value (partial)
    enabled,           \* the calls of ingest_session_lock_enabled and what they returned
    wds,               \* working directories of replay: path -> (file name -> content)
    rp,                \* replay_node: its arguments and locals
    vn,                \* verify_node: its arguments and locals
    vreach,            \* verify_reachable: its arguments and locals
    ret,               \* what the last call of replay or verify returned or raised
    ran,               \* history: the transform runs of the current call
    wrote,             \* history: the transform of the current call wrote out.bin
    memory,            \* MemoryStore.store: digest -> MemNode (partial)
    critic,            \* Critic: its fields, and replay_and_verify's arguments and locals
    verdict,           \* what the last call of the proof kernel returned
    controller,        \* Controller: its fields, and submit's argument
    called,            \* history: the monitors called for the step evaluated last
    audit              \* history: what the calls of the proof kernel did

vars == <<src, objects, tmps, nodes, refs, pc, args, artifact_id, transform,
          sb, buf, fd, node, result, commands, before, seen, environ, enabled,
          wds, rp, vn, vreach, ret, ran, wrote, memory, critic, verdict,
          controller, called, audit>>

\* The state outside the ledger directory and the processes that write it.
lockVars == <<environ, enabled>>
replayVars == <<wds, rp, vn, vreach, ret, ran, wrote>>
kernelVars == <<memory, critic, verdict, controller, called, audit>>
auxVars == <<lockVars, replayVars, kernelVars>>
ingestVars == <<pc, args, artifact_id, transform, sb, buf, fd, node, result>>

fsVars == <<src, objects, tmps, nodes, refs>>
\* What a step of a process leaves alone unless it says otherwise.
histVars == <<commands, before, seen>>

----------------------------------------------------------------------------
(* Files as partial functions: a path exists when it is in the DOMAIN.     *)

Put(f, k, v) == [x \in DOMAIN f \cup {k} |-> IF x = k THEN v ELSE f[x]]
Remove(f, k) == [x \in DOMAIN f \ {k} |-> f[x]]
EmptyDir == [x \in {} |-> <<>>]

\* Values whose type the code tests at run time (JSON values and optional
\* arguments) are records of one field that names the type: [null |-> TRUE]
\* is None, [list |-> s] a list, [dict |-> d] a dict, [str |-> s] a str,
\* [int |-> n] a number, and [sha256 |-> b], an id, is the str of the 64 hex
\* digits of a digest.
None == [null |-> TRUE]
isinstance_list(x) == DOMAIN x = {"list"}
isinstance_dict(x) == DOMAIN x = {"dict"}
\* isinstance(x, str) and len(x) == 64: the other strs of the model are short.
IsStr64(x) == DOMAIN x = {"sha256"}
\* d.get(key, default)
get(d, key, default) == IF key \in DOMAIN d THEN d[key] ELSE default
\* params = {}
EmptyParams == [dict |-> <<>>]

NoArgs == [path |-> NoFile, parent |-> <<>>, transform_file |-> NoFile,
           name |-> NoFile, id |-> sha256_bytes(<<>>)]
NoTransform == [name |-> <<>>, digest |-> sha256_bytes(<<>>), params |-> EmptyParams,
                runner |-> None, env_digest |-> None]
NoNode == [id |-> sha256_bytes(<<>>), parents |-> <<>>, transform |-> NoTransform]
NoCall == [src |-> NoFile, digest |-> sha256_bytes(<<>>), ret |-> "idle"]
\* No call of replay_node, verify_node, verify_reachable is running.
NoReplay == [pc |-> "idle", node_id |-> None, workdir |-> None, keep |-> FALSE,
             ret_to |-> "caller", m |-> None, errors |-> <<>>, i |-> 0,
             tmp_ctx |-> None, wd |-> None, proc |-> None]
NoVerify == [pc |-> "idle", node_id |-> None, replay |-> FALSE, errors |-> <<>>,
             ret_to |-> "caller"]
NoReachable == [pc |-> "idle", root_id |-> None, replay |-> FALSE, errors |-> <<>>,
                seen |-> {}, stack |-> <<>>, nid |-> None]
NoReturn == [fn |-> "none"]

----------------------------------------------------------------------------
(* Proof kernel: values, src/memory_system.py                              *)

\* json.dumps(obj, sort_keys=True, separators=(",", ":")).encode(): the bytes
\* of the one canonical text of obj.
canonical_json(obj) == [json |-> obj]
\* Bytes that are no JSON text.
RawBytes(n) == [raw |-> n]
\* json.loads(data.decode("utf-8")): the value, or nothing when it raises.
loads(data) == IF DOMAIN data = {"json"} THEN data.json ELSE [invalid |-> TRUE]

\* class Phase, class StepType: the names of the members.
Phase == {"INGEST", "TRAVERSE", "ANALYZE", "HYPOTHESIZE", "DECIDE", "ACT"}
StepType == {"PARSE", "EXTRACT", "INFER", "AGGREGATE", "ENTITY_BIND", "DECIDE", "ACT"}
PHASE_ALLOWED ==
    [p \in Phase |->
        CASE p = "INGEST" -> {"PARSE"}
          [] p = "TRAVERSE" -> {"EXTRACT"}
          [] p \in {"ANALYZE", "HYPOTHESIZE"} -> {"EXTRACT", "AGGREGATE", "INFER"}
          [] p = "DECIDE" -> {"DECIDE"}
          [] p = "ACT" -> {"ACT"}]

\* MemNode(data, parents)
MemNode(data, parents) == [data |-> data, parents |-> parents]
\* The digest MemoryStore.put computes.
NodeDigest(data, parents) ==
    sha256_bytes(canonical_json([dict |-> [data_sha256 |-> sha256_bytes(data),
                                           parents |-> [list |-> parents]]]))
\* A store that drops the entry that is put again.
MemoryStore_put_drops(store, data, parents) ==
    IF NodeDigest(data, parents) \notin DOMAIN store
       THEN Put(store, NodeDigest(data, parents), MemNode(data, parents))
       ELSE Remove(store, NodeDigest(data, parents))
\* MemoryStore.put: the store after the call (the digest is NodeDigest).
MemoryStore_put(store, data, parents) ==
    IF NodeDigest(data, parents) \notin DOMAIN store
       THEN Put(store, NodeDigest(data, parents), MemNode(data, parents))
       ELSE store

\* opcode_eval(step, in_nodes)
opcode_eval(step, in_nodes) ==
    canonical_json([dict |->
        [op |-> step.step_type,
         rule |-> step.rule_id,
         params |-> step.params,
         inputs_data |-> [k \in 1..Len(in_nodes) |-> sha256_bytes(in_nodes[k].data)],
         inputs_parents |-> [k \in 1..Len(in_nodes) |-> in_nodes[k].parents]]])

\* Norms(goal_id=...)
Norms(goal_id) ==
    [infer_count |-> 0, aggregate_count |-> 0, decision_count |-> 0, goal_id |-> goal_id]

\* Monitors that let every event pass.
Monitor_step_passes(m, event) == TRUE
\* PhaseAllowlistMonitor.step, HiddenPremiseMonitor.step
Monitor_step(m, event) ==
    IF m = "PhaseAllowlistMonitor"
       THEN event.step_type \in PHASE_ALLOWED[event.phase]
       ELSE IF event.step_type \in {"INFER", "DECIDE", "ACT"}
               THEN event.deps_count > 0
               ELSE TRUE
\* The monitors of the law bundle, in the order a critic is given them.
BuiltinMonitors == <<"PhaseAllowlistMonitor", "HiddenPremiseMonitor">>

\* LAW_HASH, the digest of LAW_BUNDLE
LAW_HASH ==
    LET LAW_BUNDLE ==
            canonical_json([dict |-> [phases |-> PHASE_ALLOWED,
                                      opcodes |-> StepType,
                                      monitors |-> {"HiddenPremiseMonitor",
                                                    "PhaseAllowlistMonitor"}]])
    IN  sha256_bytes(LAW_BUNDLE)

\* Critic(memory, monitors, law_hash), no call of replay_and_verify running:
\* the proof is Proof(goal_id, steps, receipt_deps) before any call.
NoCritic(monitors) ==
    [monitors |-> monitors, law_hash |-> LAW_HASH, pc |-> "idle",
     proof |-> [goal_id |-> "", steps |-> <<>>, receipt_deps |-> <<>>],
     phase |-> "INGEST", i |-> 0, norms |-> Norms("")]
NoVerdict == [fn |-> "none"]
\* Controller(memory, critic): the memory is the critic's; no call of submit
\* running.
Controller(c) ==
    [phase |-> "INGEST", law_hash |-> c.law_hash, last_receipt_id |-> None,
     pc |-> "idle", proof |-> c.proof]
\* Nothing has been called on a proof kernel with the given memory: the
\* memory when the last call began, the (proof, phase) pairs the critic
\* accepted, the (proof, phase, receipt) triples submit committed, the
\* digests put returned.
NoAudit(store) ==
    [before |-> store, accepted |-> {}, committed |-> {}, puts |-> DOMAIN store]

----------------------------------------------------------------------------
(* Manifest store: src/src/ledger/manifest.py                              *)

\* Node.to_dict: runner and env_digest are left out when they are None; meta
\* is None.
to_dict(n) ==
    [id |-> n.id,
     parents |-> [list |-> n.parents],
     transform |-> [dict |->
        [k \in {"name", "digest", "params"}
                \cup (IF n.transform.runner # None THEN {"runner"} ELSE {})
                \cup (IF n.transform.env_digest # None THEN {"env_digest"} ELSE {})
            |-> n.transform[k]]]]

\* The text of a manifest file is a sequence of documents: <<>> is the empty
\* file, <<d>> the JSON document of payload d, and <<d, e>> the document d
\* followed by the tail of a longer document e that d was written over.
json_dumps(payload) == <<payload>>
\* f.write(txt) on a file opened with "w" by this writer, at offset 0.
\* The length of json.dumps(payload, indent=2, sort_keys=True) + "\n" is
\* TextLen: every parent adds a line of 64 hex digits, the transform name its
\* own bytes.
WriteText(old, payload) ==
    LET TextLen(p) == 68 * Len(p.parents.list) + Len(p.transform.dict.name)
        FileLen(text) == IF text = <<>> THEN 0 ELSE TextLen(text[Len(text)])
    IN
    IF TextLen(payload) >= FileLen(old)
        THEN json_dumps(payload)
        ELSE json_dumps(payload) \o <<old[Len(old)]>>

\* A write_node_manifest that never finds the manifest.
ManifestExistsNever(id) == FALSE
\* p.exists() in write_node_manifest
ManifestExists(id) == id \in DOMAIN nodes

\* A store_blob that never finds the destination.
DstExistsNever(digest) == FALSE
\* dst.exists() in store_blob
DstExists(digest) == digest \in DOMAIN objects

Init ==
    /\ src \in {f \in [Files -> Contents \cup {TransformSource}] :
                   f["a.bin"] \in Contents /\ f["t.py"] = TransformSource}
    /\ objects = EmptyDir
    /\ tmps = EmptyDir
    /\ nodes = EmptyDir
    /\ refs = EmptyDir
    /\ pc = [p \in Procs |-> "idle"]
    /\ args = [p \in Procs |-> NoArgs]
    /\ artifact_id = [p \in Procs |-> sha256_bytes(<<>>)]
    /\ transform = [p \in Procs |-> NoTransform]
    /\ sb = [p \in Procs |-> NoCall]
    /\ buf = [p \in Procs |-> <<>>]
    /\ fd = [p \in Procs |-> "closed"]
    /\ node = [p \in Procs |-> NoNode]
    /\ result = [p \in Procs |-> "none"]
    /\ commands = 0
    /\ before = [p \in Procs |-> {}]
    /\ seen = EmptyDir
    /\ environ = EmptyDir
    /\ enabled = <<>>
    /\ wds = EmptyDir
    /\ rp = NoReplay
    /\ vn = NoVerify
    /\ vreach = NoReachable
    /\ ret = NoReturn
    /\ ran = 0
    /\ wrote = FALSE
    /\ memory = EmptyDir
    /\ critic = NoCritic(BuiltinMonitors)
    /\ verdict = NoVerdict
    /\ controller = Controller(critic)
    /\ called = <<>>
    /\ audit = NoAudit(memory)

\* A command ends: the process is idle again and its locals are gone.
Exit(p, status) ==
    /\ pc' = [pc EXCEPT ![p] = "idle"]
    /\ result' = [result EXCEPT ![p] = status]
    /\ args' = [args EXCEPT ![p] = NoArgs]
    /\ artifact_id' = [artifact_id EXCEPT ![p] = sha256_bytes(<<>>)]
    /\ transform' = [transform EXCEPT ![p] = NoTransform]
    /\ sb' = [sb EXCEPT ![p] = NoCall]
    /\ buf' = [buf EXCEPT ![p] = <<>>]
    /\ fd' = [fd EXCEPT ![p] = "closed"]
    /\ node' = [node EXCEPT ![p] = NoNode]
    /\ before' = [before EXCEPT ![p] = {}]
    /\ UNCHANGED <<commands, seen>>

\* A process starts a command.
Start(p, at) ==
    /\ pc[p] = "idle"
    /\ commands < MaxCommands
    /\ commands' = commands + 1
    /\ pc' = [pc EXCEPT ![p] = at]
    /\ UNCHANGED <<before, seen>>

----------------------------------------------------------------------------
(* Ingest driver: src/src/ledger/cli.py, cmd_ingest.  It takes no lock:    *)
(* the code that would take the session lock stands after the return       *)
(* statement of _do_ingest, which nothing calls.                           *)

\* ledger ingest <path> [--parent p] [--transform-file tf]: src.exists() holds.
cmd_ingest(p, path, parent, tf) ==
    /\ Start(p, "ingest_hash")
    /\ args' = [args EXCEPT ![p] = [NoArgs EXCEPT !.path = path, !.parent = parent,
                                                  !.transform_file = tf]]
    /\ UNCHANGED <<fsVars, artifact_id, transform, sb, buf, fd, node, result>>
    /\ UNCHANGED auxVars

\* An ingest that computes the artifact id and goes on without storing the blob.
ingest_hash_without_store(p) ==
    /\ pc[p] = "ingest_hash"
    /\ artifact_id' = [artifact_id EXCEPT ![p] = sha256_file(src, args[p].path)]
    /\ pc' = [pc EXCEPT ![p] = "ingest_transform"]
    /\ UNCHANGED <<fsVars, args, transform, sb, buf, fd, node, result, histVars>>
    /\ UNCHANGED auxVars
\* artifact_id = sha256_file(src); store_blob(src, cas, artifact_id) is called.
ingest_hash(p) ==
    /\ pc[p] = "ingest_hash"
    /\ artifact_id' = [artifact_id EXCEPT ![p] = sha256_file(src, args[p].path)]
    /\ sb' = [sb EXCEPT ![p] = [src |-> args[p].path,
                                digest |-> sha256_file(src, args[p].path),
                                ret |-> "ingest_transform"]]
    /\ pc' = [pc EXCEPT ![p] = "sb_exists"]
    /\ UNCHANGED <<fsVars, args, transform, buf, fd, node, result, histVars>>
    /\ UNCHANGED auxVars

----------------------------------------------------------------------------
(* Object store: src/src/ledger/cas.py, store_blob                         *)

\* store_blob(src, cas, digest) called by a process itself, as the tests do
\* with digest = sha256_file(src) computed before.
store_blob(p, path, digest) ==
    /\ Start(p, "sb_exists")
    /\ sb' = [sb EXCEPT ![p] = [src |-> path, digest |-> digest, ret |-> "returned"]]
    /\ UNCHANGED <<fsVars, args, artifact_id, transform, buf, fd, node, result>>
    /\ UNCHANGED auxVars

\* if dst.exists(): return dst
sb_exists(p) ==
    /\ pc[p] = "sb_exists"
    /\ pc' = [pc EXCEPT ![p] = IF DstExists(sb[p].digest) THEN sb[p].ret ELSE "sb_read"]
    /\ before' = [before EXCEPT ![p] = IF sb[p].digest \in DOMAIN objects
                                          THEN {objects[sb[p].digest]} ELSE {}]
    /\ UNCHANGED <<fsVars, args, artifact_id, transform, sb, buf, fd, node, result,
                   commands, seen>>
    /\ UNCHANGED auxVars

\* src.read_bytes()
sb_read(p) ==
    /\ pc[p] = "sb_read"
    /\ buf' = [buf EXCEPT ![p] = src[sb[p].src]]
    /\ pc' = [pc EXCEPT ![p] = "sb_open"]
    /\ UNCHANGED <<fsVars, args, artifact_id, transform, sb, fd, node, result, histVars>>
    /\ UNCHANGED auxVars

\* tmp.write_bytes: open(tmp, "wb") creates the file or truncates the one there.
sb_open(p) ==
    /\ pc[p] = "sb_open"
    /\ tmps' = Put(tmps, sb[p].digest, <<>>)
    /\ fd' = [fd EXCEPT ![p] = "tmp"]
    /\ pc' = [pc EXCEPT ![p] = "sb_write"]
    /\ UNCHANGED <<src, objects, nodes, refs, args, artifact_id, transform, sb,
                   buf, node, result, histVars>>
    /\ UNCHANGED auxVars

\* tmp.write_bytes: f.write(data) and close.  The bytes go to the file that was
\* opened, which a rename by another process may have moved to dst meanwhile,
\* or which a later rename over dst may have unlinked.
sb_write(p) ==
    LET \* A write of data at offset 0 of a file opened without O_APPEND: bytes
        \* of the old content beyond the data stay.
        WriteAt0(old, data) == data \o SubSeq(old, Len(data) + 1, Len(old))
    IN
    /\ pc[p] = "sb_write"
    /\ tmps' = IF fd[p] = "tmp"
                  THEN Put(tmps, sb[p].digest, WriteAt0(tmps[sb[p].digest], buf[p]))
                  ELSE tmps
    /\ objects' = IF fd[p] = "dst"
                     THEN Put(objects, sb[p].digest,
                              WriteAt0(objects[sb[p].digest], buf[p]))
                     ELSE objects
    /\ fd' = [fd EXCEPT ![p] = "closed"]
    /\ pc' = [pc EXCEPT ![p] = "sb_replace"]
    /\ UNCHANGED <<src, nodes, refs, args, artifact_id, transform, sb, buf, node,
                   result, histVars>>
    /\ UNCHANGED auxVars

\* tmp.replace(dst): rename(2); FileNotFoundError when tmp is gone.
sb_replace(p) ==
    /\ pc[p] = "sb_replace"
    /\ IF sb[p].digest \in DOMAIN tmps
          THEN /\ objects' = Put(objects, sb[p].digest, tmps[sb[p].digest])
               /\ tmps' = Remove(tmps, sb[p].digest)
               /\ fd' = [q \in Procs |->
                           IF sb[q].digest = sb[p].digest /\ fd[q] = "tmp" THEN "dst"
                           ELSE IF sb[q].digest = sb[p].digest /\ fd[q] = "dst"
                                   THEN "unlinked"
                           ELSE fd[q]]
               /\ pc' = [pc EXCEPT ![p] = sb[p].ret]
               /\ UNCHANGED <<src, nodes, refs, args, artifact_id, transform, sb,
                              buf, node, result, histVars>>
          ELSE /\ Exit(p, "FileNotFoundError")
               /\ UNCHANGED fsVars
    /\ UNCHANGED auxVars

\* The call a process made itself returns; the process ends with status 0.
returned(p) ==
    /\ pc[p] = "returned"
    /\ Exit(p, "ok")
    /\ UNCHANGED fsVars
    /\ UNCHANGED auxVars

----------------------------------------------------------------------------
(* cmd_ingest, continued                                                   *)

\* The transform digest: of the transform file, which is then stored in the
\* CAS, or else of the transform name.
ingest_transform(p) ==
    LET \* "unspecified".encode("utf-8")
        Utf8Unspecified == <<117, 110, 115, 112, 101, 99, 105, 102, 105, 101, 100>>
    IN
    /\ pc[p] = "ingest_transform"
    /\ IF args[p].transform_file # NoFile
          THEN /\ transform' = [transform EXCEPT ![p] =
                      [NoTransform EXCEPT
                          !.name = Utf8TransformName,
                          !.digest = sha256_file(src, args[p].transform_file)]]
               /\ sb' = [sb EXCEPT ![p] =
                      [src |-> args[p].transform_file,
                       digest |-> sha256_file(src, args[p].transform_file),
                       ret |-> "ingest_node"]]
               /\ pc' = [pc EXCEPT ![p] = "sb_exists"]
          ELSE /\ transform' = [transform EXCEPT ![p] =
                      [NoTransform EXCEPT
                          !.name = Utf8Unspecified,
                          !.digest = sha256_bytes(Utf8Unspecified)]]
               /\ sb' = sb
               /\ pc' = [pc EXCEPT ![p] = "ingest_node"]
    /\ UNCHANGED <<fsVars, args, artifact_id, buf, fd, node, result, histVars>>
    /\ UNCHANGED auxVars

\* node = Node(id=artifact_id, parents=args.parent or [], transform=...);
\* write_node_manifest(repo_root, node) is called.
ingest_node(p) ==
    /\ pc[p] = "ingest_node"
    /\ node' = [node EXCEPT ![p] = [id |-> artifact_id[p],
                                    parents |-> args[p].parent,
                                    transform |-> transform[p]]]
    /\ pc' = [pc EXCEPT ![p] = "wm_exists"]
    /\ UNCHANGED <<fsVars, args, artifact_id, transform, sb, buf, fd, result, histVars>>
    /\ UNCHANGED auxVars

----------------------------------------------------------------------------
(* Manifest store: write_node_manifest, read_node_manifest                 *)

\* write_node_manifest(repo_root, node) called by a process itself, as the
\* tests do.
write_node_manifest(p, n) ==
    /\ Start(p, "wm_exists")
    /\ node' = [node EXCEPT ![p] = n]
    /\ UNCHANGED <<fsVars, args, artifact_id, transform, sb, buf, fd, result>>
    /\ UNCHANGED auxVars

\* if p.exists(): raise FileExistsError
wm_exists(p) ==
    /\ pc[p] = "wm_exists"
    /\ IF ManifestExists(node[p].id)
          THEN Exit(p, "FileExistsError")
          ELSE /\ pc' = [pc EXCEPT ![p] = "wm_open"]
               /\ UNCHANGED <<args, artifact_id, transform, sb, buf, fd, node,
                              result, histVars>>
    /\ UNCHANGED fsVars
    /\ UNCHANGED auxVars

\* p.write_text: open(p, "w") creates the file or truncates the one there.
wm_open(p) ==
    /\ pc[p] = "wm_open"
    /\ nodes' = Put(nodes, node[p].id, <<>>)
    /\ pc' = [pc EXCEPT ![p] = "wm_write"]
    /\ UNCHANGED <<src, objects, tmps, refs, args, artifact_id, transform, sb,
                   buf, fd, node, result, histVars>>
    /\ UNCHANGED auxVars

\* p.write_text: f.write(txt) and close; the call returns and the command
\* ends with status 0.
wm_write(p) ==
    /\ pc[p] = "wm_write"
    /\ nodes' = Put(nodes, node[p].id, WriteText(nodes[node[p].id], to_dict(node[p])))
    /\ Exit(p, "ok")
    /\ UNCHANGED <<src, objects, tmps, refs>>
    /\ UNCHANGED auxVars

\* p.read_text() of read_node_manifest by some reader process, which keeps
\* what it read the first time.
read_node_manifest(id) ==
    /\ id \in DOMAIN nodes
    /\ id \notin DOMAIN seen
    /\ seen' = Put(seen, id, nodes[id])
    /\ UNCHANGED <<fsVars, pc, args, artifact_id, transform, sb, buf, fd, node,
                   result, commands, before>>
    /\ UNCHANGED auxVars

----------------------------------------------------------------------------
(* Refs: src/src/ledger/cli.py, cmd_refs_set                               *)

\* ledger refs set <name> <id>: refp.write_text opens the ref file ...
cmd_refs_set(p, name, id) ==
    /\ Start(p, "refs_write")
    /\ args' = [args EXCEPT ![p] = [NoArgs EXCEPT !.name = name, !.id = id]]
    /\ refs' = Put(refs, name, <<>>)
    /\ UNCHANGED <<src, objects, tmps, nodes, artifact_id, transform, sb, buf, fd, node, result>>
    /\ UNCHANGED auxVars

\* ... and writes args.id.strip() + "\n".
refs_write(p) ==
    /\ pc[p] = "refs_write"
    /\ refs' = Put(refs, args[p].name, <<args[p].id>>)
    /\ Exit(p, "ok")
    /\ UNCHANGED <<src, objects, tmps, nodes>>
    /\ UNCHANGED auxVars

----------------------------------------------------------------------------
(* Session lock: src/src/ledger/locks.py                                   *)

\* ingest_session_lock_path(repo_root): the return statement applies the
\* operator @ to the path and the function contextmanager, which neither
\* operand supports.
ingest_session_lock_path(repo_root) == "TypeError"

\* with ingest_session_lock(repo_root): ...  as _holder and _waiter of the lock
\* test do.  Entering the context evaluates ingest_session_lock_path first.
ingest_session_lock(p) ==
    /\ Start(p, "idle")
    /\ result' = [result EXCEPT ![p] =
                     IF ingest_session_lock_path("repo") = "TypeError"
                        THEN "TypeError" ELSE "ok"]
    /\ UNCHANGED <<fsVars, args, artifact_id, transform, sb, buf, fd, node>>
    /\ UNCHANGED auxVars

----------------------------------------------------------------------------
(* Session lock policy: src/src/ledger/locks.py, ingest_session_lock_enabled *)
(* A str is the sequence of its characters.                                *)

LockVariable == "LEDGER_INGEST_SESSION_LOCK"
\* Characters str.strip() removes.
Whitespace == {" ", "\t"}
\* str.lower()
lower(s) ==
    LET UpperCase == <<"A", "B", "C", "D", "E", "F", "G", "H", "I", "J", "K",
                       "L", "M", "N", "O", "P", "Q", "R", "S", "T", "U", "V",
                       "W", "X", "Y", "Z">>
        LowerCase == <<"a", "b", "c", "d", "e", "f", "g", "h", "i", "j", "k",
                       "l", "m", "n", "o", "p", "q", "r", "s", "t", "u", "v",
                       "w", "x", "y", "z">>
    IN
    [i \in 1..Len(s) |->
        IF \E k \in 1..26 : UpperCase[k] = s[i]
           THEN LowerCase[CHOOSE k \in 1..26 : UpperCase[k] = s[i]]
           ELSE s[i]]
\* str.strip()
strip(s) ==
    LET RECURSIVE lstrip(_)
        lstrip(t) ==
            IF t # <<>> /\ Head(t) \in Whitespace THEN lstrip(Tail(t)) ELSE t
        RECURSIVE rstrip(_)
        rstrip(t) ==
            IF t # <<>> /\ t[Len(t)] \in Whitespace
               THEN rstrip(SubSeq(t, 1, Len(t) - 1)) ELSE t
    IN  rstrip(lstrip(s))

\* _truthy(v): v.strip().lower() in ("1", "true", "yes", "y", "on")
_truthy(v) ==
    lower(strip(v)) \in {<<"1">>, <<"t", "r", "u", "e">>, <<"y", "e", "s">>,
                         <<"y">>, <<"o", "n">>}

\* A policy that takes no value of the variable as falsey.
_falsey_never(v) == FALSE
\* _falsey(v): v.strip().lower() in ("0", "false", "no", "n", "off")
_falsey(v) ==
    lower(strip(v)) \in {<<"0">>, <<"f", "a", "l", "s", "e">>, <<"n", "o">>,
                         <<"n">>, <<"o", "f", "f">>}

\* The values the variable is given: every string of up to MaxEnvLen of these
\* characters, and some longer words.
EnvValues ==
    LET EnvAlphabet == {"n", "N", "o", "0", " ", "x"}
        EnvWords ==
            {<<"o", "f", "f">>, <<"O", "F", "F">>, <<" ", "O", "f", "f", " ">>,
             <<"f", "a", "l", "s", "e">>, <<"F", "a", "l", "s", "e">>,
             <<"\t", "n", "o">>, <<"t", "r", "u", "e">>, <<"y", "e", "s">>,
             <<"1">>, <<"o", "f", "f", "x">>}
    IN  EnvWords \cup UNION {[1..n -> EnvAlphabet] : n \in 0..MaxEnvLen}

\* os.environ[LockVariable] = v, in the process or by whoever starts it.
setenv(v) ==
    /\ environ # Put(environ, LockVariable, v)
    /\ environ' = Put(environ, LockVariable, v)
    /\ UNCHANGED <<fsVars, ingestVars, histVars, enabled, replayVars, kernelVars>>

\* del os.environ[LockVariable]
unsetenv ==
    /\ LockVariable \in DOMAIN environ
    /\ environ' = Remove(environ, LockVariable)
    /\ UNCHANGED <<fsVars, ingestVars, histVars, enabled, replayVars, kernelVars>>

\* ingest_session_lock_enabled(cli_no_session_lock=...): v = os.environ.get(...)
ingest_session_lock_enabled(cli_no_session_lock) ==
    /\ commands < MaxCommands
    /\ commands' = commands + 1
    /\ enabled' = Append(enabled,
          [cli_no_session_lock |-> cli_no_session_lock,
           result |->
              IF cli_no_session_lock THEN FALSE
              ELSE IF LockVariable \notin DOMAIN environ THEN TRUE
              ELSE IF _truthy(environ[LockVariable]) THEN TRUE
              ELSE IF _falsey(environ[LockVariable]) THEN FALSE
              ELSE TRUE])
    /\ UNCHANGED <<fsVars, ingestVars, before, seen, environ, replayVars, kernelVars>>

----------------------------------------------------------------------------
(* Replay engine: src/src/ledger/replay.py, replay_node                    *)

\* The default runner ["python3"].
Python3 == <<"p", "y", "t", "h", "o", "n", "3">>
\* An entry of an error list: the message, and the values formatted into it.
Err(msg) == [msg |-> msg]
\* Files of a working directory.
ParentBin(i, pid) == [name |-> "parents/{i:03d}_{pid}.bin", i |-> i, pid |-> pid]
OutBin == [name |-> "out.bin"]
\* The caller's working directory and the directory TemporaryDirectory makes.
CallerDir == "wd"
ScratchDir == "tmp"

\* json.loads(p.read_text()): the text must be one whole document.
json_loads(text) == text[1]

\* runner_argv of replay_node; <<>> when the runner is invalid.
runner_argv(runner) ==
    LET isinstance_str(x) == DOMAIN x = {"str"}
    IN
    IF runner = None THEN <<Python3>>
    ELSE IF /\ isinstance_list(runner)
            /\ \A k \in 1..Len(runner.list) : isinstance_str(runner.list[k])
            /\ Len(runner.list) >= 1
       THEN [k \in 1..Len(runner.list) |-> runner.list[k].str]
    ELSE IF isinstance_str(runner) /\ strip(runner.str) # <<>>
       THEN <<strip(runner.str)>>
    ELSE <<>>

\* Checks of the transform that pass an env_digest that is no digest on to
\* the look-up in the CAS.
TransformFailureEnvUnchecked(t) ==
    IF ~isinstance_dict(t) THEN <<Err("manifest.transform not an object")>>
    ELSE LET transform_digest == get(t.dict, "digest", None)
             env_digest == get(t.dict, "env_digest", None)
         IN  IF ~IsStr64(transform_digest)
                THEN <<Err("manifest.transform.digest missing/invalid")>>
             ELSE IF runner_argv(get(t.dict, "runner", None)) = <<>>
                THEN <<Err("manifest.transform.runner invalid (expected array[str])")>>
             ELSE IF ~isinstance_dict(get(t.dict, "params", EmptyParams))
                THEN <<Err("manifest.transform.params not an object")>>
             ELSE IF transform_digest \notin DOMAIN objects
                THEN <<Err("missing transform definition in CAS")>>
             ELSE IF env_digest # None /\ env_digest \notin DOMAIN objects
                THEN <<Err("missing environment description in CAS")>>
             ELSE <<>>
\* The checks of the transform of a manifest, in the order of the code: the
\* errors of the first check that fails, <<>> when all pass.
TransformFailure(t) ==
    IF ~isinstance_dict(t) THEN <<Err("manifest.transform not an object")>>
    ELSE LET transform_digest == get(t.dict, "digest", None)
             env_digest == get(t.dict, "env_digest", None)
             runner == get(t.dict, "runner", None)
             params == get(t.dict, "params", EmptyParams)
         IN  IF ~IsStr64(transform_digest)
                THEN <<Err("manifest.transform.digest missing/invalid")>>
             ELSE IF env_digest # None /\ ~IsStr64(env_digest)
                THEN <<Err("manifest.transform.env_digest invalid (expected 64-hex)")>>
             ELSE IF runner_argv(runner) = <<>>
                THEN <<Err("manifest.transform.runner invalid (expected array[str])")>>
             ELSE IF ~isinstance_dict(params)
                THEN <<Err("manifest.transform.params not an object")>>
             ELSE IF transform_digest \notin DOMAIN objects
                THEN <<Err("missing transform definition in CAS"),
                       [msg |-> "  expected: {transform_obj}", digest |-> transform_digest],
                       Err("  hint: ingest nodes with --transform-file to store transform bytes")>>
             ELSE IF env_digest # None /\ env_digest \notin DOMAIN objects
                THEN <<Err("missing environment description in CAS"),
                       [msg |-> "  expected: {env_obj}", digest |-> env_digest],
                       Err("  hint: store your lockfile/Nix flake/container recipe as a CAS blob")>>
             ELSE <<>>

\* ReplayResult(ok, errors, output_digest, workdir)
ReplayResult(ok, errors, output_digest, workdir) ==
    [fn |-> "replay_node", ok |-> ok, errors |-> errors,
     output_digest |-> output_digest, workdir |-> workdir]
\* An exception that leaves the call.
Raised(fn, exc) == [fn |-> fn, raised |-> exc]

\* A replay that never cleans up.
finally_nothing(w) == w
\* finally: if tmp_ctx is not None and not keep: tmp_ctx.cleanup()
finally(w) ==
    IF rp.tmp_ctx # None /\ ~rp.keep THEN Remove(w, ScratchDir) ELSE w

\* VerifyResult(ok, errors)
VerifyResult(errors) == [fn |-> "verify", ok |-> (Len(errors) = 0), errors |-> errors]
\* Errors that do not say where they come from.
PrefixedNone(prefix, errors) ==
    [k \in 1..Len(errors) |-> [prefix |-> None, e |-> errors[k]]]
\* [f"{prefix}: {e}" for e in errors]
Prefixed(prefix, errors) ==
    [k \in 1..Len(errors) |-> [prefix |-> prefix, e |-> errors[k]]]
IsRaised(r) == "raised" \in DOMAIN r

\* verify_node returns r (or raises it) to who called it: the caller, or the
\* loop of verify_reachable, which no exception of verify_node is caught in.
VerifyReturns(r) ==
    /\ vn' = NoVerify
    /\ IF vn.ret_to = "caller"
          THEN ret' = r /\ vreach' = vreach
       ELSE IF IsRaised(r)
          THEN ret' = r /\ vreach' = NoReachable
       ELSE /\ ret' = ret
            /\ vreach' = [vreach EXCEPT
                            !.pc = "vr_parents",
                            !.errors = IF r.ok THEN @
                                       ELSE @ \o Prefixed(vreach.nid, r.errors)]

\* replay_node returns r (or raises it) to who called it: the caller, or
\* verify_node, which extends its errors and returns.
ReplayReturns(r) ==
    /\ rp' = NoReplay
    /\ IF rp.ret_to = "caller"
          THEN ret' = r /\ UNCHANGED <<vn, vreach>>
       ELSE IF IsRaised(r)
          THEN VerifyReturns(r)
       ELSE VerifyReturns(VerifyResult(
                vn.errors \o (IF r.ok THEN <<>> ELSE Prefixed("replay", r.errors))))

\* replay_node(repo_root, node_id, workdir, keep) is called.
replay_node(node_id, workdir, keep) ==
    /\ rp.pc = "idle" /\ vn.pc = "idle" /\ vreach.pc = "idle"
    /\ rp' = [NoReplay EXCEPT !.pc = "rp_read", !.node_id = node_id,
                              !.workdir = workdir, !.keep = keep]
    /\ ret' = NoReturn
    /\ ran' = 0
    /\ wrote' = FALSE
    /\ UNCHANGED <<fsVars, ingestVars, histVars, lockVars, kernelVars, wds, vn, vreach>>

\* A replay that finds a derivation to replay in every node.
NothingToReplayNever(parents) == FALSE
\* if len(parents) == 0: root/admission nodes have no derivation to replay.
NothingToReplay(parents) == Len(parents.list) = 0

\* m = read_node_manifest(...), and every check made before the working
\* directory is prepared.
rp_read(m) ==
    LET parents == get(m, "parents", [list |-> <<>>])
        t == get(m, "transform", [dict |-> <<>>])
    IN  IF ~isinstance_list(parents)
           THEN /\ ReplayReturns(ReplayResult(FALSE,
                                   <<Err("manifest.parents not a list")>>, None, None))
        ELSE IF NothingToReplay(parents)
           THEN /\ ReplayReturns(ReplayResult(TRUE, <<>>, rp.node_id, rp.workdir))
        ELSE IF TransformFailure(t) # <<>>
           THEN /\ ReplayReturns(ReplayResult(FALSE, TransformFailure(t), None, None))
        ELSE /\ rp' = [rp EXCEPT !.pc = "rp_workdir", !.m = m]
             /\ UNCHANGED <<ret, vn, vreach>>

\* The first step of replay_node: p.read_text() raises FileNotFoundError when
\* the manifest is absent, json.loads raises JSONDecodeError on a text that
\* is not one document.
rp_manifest ==
    /\ rp.pc = "rp_read"
    /\ IF rp.node_id \notin DOMAIN nodes
          THEN ReplayReturns(Raised("replay_node", "FileNotFoundError"))
       ELSE IF Len(nodes[rp.node_id]) # 1
          THEN ReplayReturns(Raised("replay_node", "JSONDecodeError"))
       ELSE rp_read(json_loads(nodes[rp.node_id]))
    /\ UNCHANGED <<fsVars, ingestVars, histVars, lockVars, kernelVars, wds, ran, wrote>>

\* A replay that makes its scratch directory under ledger/tmp.
rp_workdir_in_ledger ==
    /\ rp.pc = "rp_workdir"
    /\ tmps' = IF rp.workdir = None THEN Put(tmps, rp.node_id, <<>>) ELSE tmps
    /\ wds' = Put(wds, IF rp.workdir # None THEN rp.workdir.path ELSE ScratchDir,
                   EmptyDir)
    /\ rp' = [rp EXCEPT !.pc = "rp_parent", !.i = 1,
                        !.tmp_ctx = IF rp.workdir # None THEN None
                                    ELSE [name |-> ScratchDir],
                        !.wd = IF rp.workdir # None THEN rp.workdir
                               ELSE [path |-> ScratchDir]]
    /\ UNCHANGED <<src, objects, nodes, refs, ingestVars, histVars, lockVars, kernelVars,
                   vn, vreach, ret, ran, wrote>>
\* wd.mkdir(parents=True, exist_ok=True) or tempfile.TemporaryDirectory(...),
\* then parents_dir.mkdir(...)
rp_workdir ==
    /\ rp.pc = "rp_workdir"
    /\ IF rp.workdir # None
          THEN /\ wds' = IF rp.workdir.path \in DOMAIN wds THEN wds
                         ELSE Put(wds, rp.workdir.path, EmptyDir)
               /\ rp' = [rp EXCEPT !.pc = "rp_parent", !.i = 1, !.wd = rp.workdir]
          ELSE /\ wds' = Put(wds, ScratchDir, EmptyDir)
               /\ rp' = [rp EXCEPT !.pc = "rp_parent", !.i = 1,
                                   !.tmp_ctx = [name |-> ScratchDir],
                                   !.wd = [path |-> ScratchDir]]
    /\ UNCHANGED <<fsVars, ingestVars, histVars, lockVars, kernelVars, vn, vreach, ret, ran, wrote>>

\* One turn of `for i, pid in enumerate(parents)`.
rp_parent ==
    /\ rp.pc = "rp_parent"
    /\ rp.i <= Len(rp.m.parents.list)
    /\ LET pid == rp.m.parents.list[rp.i]
       IN  IF ~IsStr64(pid)
              THEN /\ rp' = [rp EXCEPT !.i = @ + 1, !.errors =
                               Append(@, [msg |-> "invalid parent id: {pid!r}", pid |-> pid])]
                   /\ wds' = wds
           ELSE IF pid \notin DOMAIN objects
              THEN /\ rp' = [rp EXCEPT !.i = @ + 1, !.errors =
                               Append(@, [msg |-> "missing parent object: {parent_obj}",
                                          pid |-> pid])]
                   /\ wds' = wds
           ELSE /\ rp' = [rp EXCEPT !.i = @ + 1]
                /\ wds' = [wds EXCEPT ![rp.wd.path] =
                              Put(@, ParentBin(rp.i - 1, pid), objects[pid])]
    /\ UNCHANGED <<fsVars, ingestVars, histVars, lockVars, kernelVars, vn, vreach, ret, ran, wrote>>

\* After the loop: the errors of the parents are returned together, or the
\* inputs of the transform are written.
rp_materialized ==
    LET ParentsJson == [name |-> "parents.json"]
        ParamsJson == [name |-> "params.json"]
        TransformPy(digest) ==
            [name |-> "transform_{digest}.py", digest |-> digest]
    IN
    /\ rp.pc = "rp_parent"
    /\ rp.i > Len(rp.m.parents.list)
    /\ IF rp.errors # <<>>
          THEN /\ ReplayReturns(ReplayResult(FALSE, rp.errors, None, rp.wd))
               /\ wds' = finally(wds)
          ELSE /\ rp' = [rp EXCEPT !.pc = "rp_run"]
               /\ wds' = [wds EXCEPT ![rp.wd.path] =
                     Put(Put(Put(@,
                         ParentsJson,
                            [k \in 1..Len(rp.m.parents.list) |->
                                [index |-> k - 1, id |-> rp.m.parents.list[k],
                                 path |-> ParentBin(k - 1, rp.m.parents.list[k]).name]]),
                         ParamsJson, get(rp.m.transform.dict, "params", EmptyParams)),
                         TransformPy(rp.m.transform.dict.digest),
                            objects[rp.m.transform.dict.digest])]
               /\ UNCHANGED <<vn, vreach, ret>>
    /\ UNCHANGED <<fsVars, ingestVars, histVars, lockVars, kernelVars, ran, wrote>>

\* What a transform may do with out.bin: leave it as it is, or write it.
RunnerWrites ==
    {[written |-> FALSE, data |-> <<>>]}
        \cup {[written |-> TRUE, data |-> c] : c \in Contents}
\* What a transform prints: nothing, or some text.
RunnerPrints == {<<>>, <<"e">>}

\* proc = subprocess.run(cmd, cwd=str(wd), text=True, capture_output=True):
\* FileNotFoundError when the runner is no program; else the transform runs,
\* and exits with any status, having written out.bin or not.
rp_run(returncode, out, stdout, stderr) ==
    LET \* The programs subprocess.run finds.
        Executables == {Python3, <<"s", "h">>}
    IN
    /\ rp.pc = "rp_run"
    /\ IF runner_argv(get(rp.m.transform.dict, "runner", None))[1] \notin Executables
          THEN /\ ReplayReturns(Raised("replay_node", "FileNotFoundError"))
               /\ wds' = finally(wds)
               /\ ran' = ran
               /\ wrote' = wrote
          ELSE /\ rp' = [rp EXCEPT !.pc = "rp_check",
                            !.proc = [returncode |-> returncode, stdout |-> stdout,
                                      stderr |-> stderr]]
               /\ wds' = IF out.written
                            THEN [wds EXCEPT ![rp.wd.path] = Put(@, OutBin, out.data)]
                            ELSE wds
               /\ ran' = ran + 1
               /\ wrote' = out.written
               /\ UNCHANGED <<vn, vreach, ret>>
    /\ UNCHANGED <<fsVars, ingestVars, histVars, lockVars, kernelVars>>

\* A replay that takes any output for the artifact.
DerivationMatchesAlways(out_digest, node_id) == TRUE
\* The test of `if out_digest != node_id`.
DerivationMatches(out_digest, node_id) == out_digest = node_id

\* The checks after the run, the return statement and the finally clause.
rp_check ==
    /\ rp.pc = "rp_check"
    /\ LET out_digest == sha256_file(wds[rp.wd.path], OutBin)
           \* The errors of a transform that failed.
           TransformFailed(proc) ==
               <<[msg |-> "transform failed (exit={proc.returncode})",
                  returncode |-> proc.returncode]>>
               \o (IF strip(proc.stdout) # <<>>
                      THEN <<[msg |-> "stdout:", text |-> proc.stdout]>>
                      ELSE <<>>)
               \o (IF strip(proc.stderr) # <<>>
                      THEN <<[msg |-> "stderr:", text |-> proc.stderr]>>
                      ELSE <<>>)
       IN  ReplayReturns(
             IF rp.proc.returncode # 0
                THEN ReplayResult(FALSE, rp.errors \o TransformFailed(rp.proc),
                                  None, rp.wd)
             ELSE IF OutBin \notin DOMAIN wds[rp.wd.path]
                THEN ReplayResult(FALSE,
                        <<Err("transform produced no output (missing out.bin)")>>,
                        None, rp.wd)
             ELSE IF ~DerivationMatches(out_digest, rp.node_id)
                THEN ReplayResult(FALSE,
                        <<[msg |-> "derivation mismatch: expected {node_id}, got {out_digest}",
                           expected |-> rp.node_id, got |-> out_digest]>>,
                        out_digest, rp.wd)
             ELSE ReplayResult(TRUE, <<>>, out_digest, rp.wd))
    /\ wds' = finally(wds)
    /\ UNCHANGED <<fsVars, ingestVars, histVars, lockVars, kernelVars, ran, wrote>>

\* The TemporaryDirectory object that was not cleaned up is destroyed after
\* the call: its finalizer removes the directory.
tmp_ctx_finalize ==
    /\ rp.pc = "idle"
    /\ ScratchDir \in DOMAIN wds
    /\ wds' = Remove(wds, ScratchDir)
    /\ UNCHANGED <<fsVars, ingestVars, histVars, lockVars, kernelVars, rp, vn, vreach, ret, ran, wrote>>

----------------------------------------------------------------------------
(* Verification: src/src/ledger/verify.py                                  *)

\* The errors of `for p in parents` of verify_node, from the i-th parent on.
RECURSIVE ParentErrors(_, _)
ParentErrors(parents, i) ==
    IF i > Len(parents) THEN <<>>
    ELSE (IF ~IsStr64(parents[i])
             THEN <<[msg |-> "invalid parent id: {p!r}", p |-> parents[i]]>>
          ELSE IF parents[i] \notin DOMAIN nodes
             THEN <<[msg |-> "missing parent manifest: {pm}", p |-> parents[i]]>>
          ELSE <<>>)
         \o ParentErrors(parents, i + 1)

\* A verification that takes any object at the path of the id for the artifact.
NodeErrorsUnhashed(node_id, m) ==
    (IF node_id \notin DOMAIN objects
        THEN <<[msg |-> "missing object: {obj}", id |-> node_id]>>
     ELSE <<>>)
    \o (IF ~isinstance_list(get(m, "parents", [list |-> <<>>]))
           THEN <<Err("manifest.parents not a list")>>
           ELSE ParentErrors(get(m, "parents", [list |-> <<>>]).list, 1))
\* Steps 2 and 3 of verify_node, for a manifest that can be read.
NodeErrors(node_id, m) ==
    (IF node_id \notin DOMAIN objects
        THEN <<[msg |-> "missing object: {obj}", id |-> node_id]>>
     ELSE IF sha256_file(objects, node_id) # node_id
        THEN <<[msg |-> "object hash mismatch: expected {node_id}, got {digest}",
                expected |-> node_id, got |-> sha256_file(objects, node_id)]>>
     ELSE <<>>)
    \o (IF ~isinstance_list(get(m, "parents", [list |-> <<>>]))
           THEN <<Err("manifest.parents not a list")>>
           ELSE ParentErrors(get(m, "parents", [list |-> <<>>]).list, 1))

\* verify_node(repo_root, node_id, replay) is called.
verify_node(node_id, replay) ==
    /\ rp.pc = "idle" /\ vn.pc = "idle" /\ vreach.pc = "idle"
    /\ vn' = [NoVerify EXCEPT !.pc = "vn_check", !.node_id = node_id,
                              !.replay = replay]
    /\ ret' = NoReturn
    /\ ran' = 0
    /\ wrote' = FALSE
    /\ UNCHANGED <<fsVars, ingestVars, histVars, lockVars, kernelVars, wds, rp, vreach>>

\* The body of verify_node up to the optional replay.
vn_check ==
    /\ vn.pc = "vn_check"
    /\ IF vn.node_id \notin DOMAIN nodes
          THEN /\ VerifyReturns(VerifyResult(
                       <<[msg |-> "missing manifest: {mp}", id |-> vn.node_id]>>))
               /\ rp' = rp
       ELSE IF Len(nodes[vn.node_id]) # 1
          THEN /\ VerifyReturns(Raised("verify_node", "JSONDecodeError"))
               /\ rp' = rp
       ELSE LET errors == NodeErrors(vn.node_id, json_loads(nodes[vn.node_id]))
            IN  IF vn.replay /\ Len(errors) = 0
                   THEN /\ vn' = [vn EXCEPT !.pc = "vn_replay", !.errors = errors]
                        /\ rp' = [NoReplay EXCEPT !.pc = "rp_read",
                                     !.node_id = vn.node_id, !.ret_to = "verify_node"]
                        /\ UNCHANGED <<vreach, ret>>
                   ELSE /\ VerifyReturns(VerifyResult(errors))
                        /\ rp' = rp
    /\ UNCHANGED <<fsVars, ingestVars, histVars, lockVars, kernelVars, wds, ran, wrote>>

\* verify_reachable(repo_root, root_id, replay) is called.
verify_reachable(root_id, replay) ==
    /\ rp.pc = "idle" /\ vn.pc = "idle" /\ vreach.pc = "idle"
    /\ vreach' = [NoReachable EXCEPT !.pc = "vr_pop", !.root_id = root_id,
                                     !.replay = replay,
                                     !.stack = <<root_id>>]
    /\ ret' = NoReturn
    /\ ran' = 0
    /\ wrote' = FALSE
    /\ UNCHANGED <<fsVars, ingestVars, histVars, lockVars, kernelVars, wds, rp, vn>>

\* A traversal that remembers no node.
AlreadySeenNever(nid) == FALSE
\* if nid in seen: continue
AlreadySeen(nid) == nid \in vreach.seen

\* while stack: nid = stack.pop(); a node not seen before is verified; with
\* the stack empty the result is returned.
vr_pop ==
    /\ vreach.pc = "vr_pop"
    /\ IF vreach.stack = <<>>
          THEN /\ ret' = VerifyResult(vreach.errors)
               /\ vreach' = NoReachable
               /\ vn' = vn
       ELSE LET nid == vreach.stack[Len(vreach.stack)]
                rest == SubSeq(vreach.stack, 1, Len(vreach.stack) - 1)
            IN  IF AlreadySeen(nid)
                   THEN /\ vreach' = [vreach EXCEPT !.stack = rest]
                        /\ UNCHANGED <<vn, ret>>
                   ELSE /\ vreach' = [vreach EXCEPT !.stack = rest, !.nid = nid,
                                         !.seen = @ \cup {nid}, !.pc = "vr_verify"]
                        /\ vn' = [NoVerify EXCEPT !.pc = "vn_check", !.node_id = nid,
                                     !.replay = vreach.replay,
                                     !.ret_to = "verify_reachable"]
                        /\ ret' = ret
    /\ UNCHANGED <<fsVars, ingestVars, histVars, lockVars, kernelVars, wds, rp, ran, wrote>>

\* [p for p in parents if isinstance(p, str) and len(p) == 64], in order.
RECURSIVE ValidParents(_, _)
ValidParents(parents, i) ==
    IF i > Len(parents) THEN <<>>
    ELSE (IF IsStr64(parents[i]) THEN <<parents[i]>> ELSE <<>>)
         \o ValidParents(parents, i + 1)

\* try: the parents of nid are pushed; except Exception: the failure to read
\* the manifest is an error of nid.
vr_parents ==
    /\ vreach.pc = "vr_parents"
    /\ IF vreach.nid \notin DOMAIN nodes \/ Len(nodes[vreach.nid]) # 1
          THEN vreach' = [vreach EXCEPT !.pc = "vr_pop", !.errors =
                  @ \o Prefixed(vreach.nid,
                                <<[msg |-> "failed reading manifest: {e}"]>>)]
          ELSE LET parents == get(json_loads(nodes[vreach.nid]), "parents",
                                  [list |-> <<>>])
               IN  vreach' = [vreach EXCEPT !.pc = "vr_pop", !.stack =
                      IF isinstance_list(parents)
                         THEN @ \o ValidParents(parents.list, 1) ELSE @]
    /\ UNCHANGED <<fsVars, ingestVars, histVars, lockVars, kernelVars, wds, rp, vn, ret, ran, wrote>>

----------------------------------------------------------------------------
(* Proof kernel: the critic, src/memory_system.py                          *)

\* A validation that looks at the first dependency only.
_validate_receipts_first(receipt_deps, i) ==
    IF i > Len(receipt_deps) \/ i > 1 THEN "OK"
    ELSE IF receipt_deps[i] \notin DOMAIN memory THEN "MISSING_RECEIPT_NODE"
    ELSE LET r == loads(memory[receipt_deps[i]].data)
         IN  IF ~isinstance_dict(r) THEN "BAD_RECEIPT_ENCODING"
             ELSE IF get(r.dict, "law_hash", None) # critic.law_hash
                     THEN "RECEIPT_LAW_MISMATCH"
             ELSE IF {"output_node", "phase", "goal_id"} \ DOMAIN r.dict # {}
                     THEN "BAD_RECEIPT_SCHEMA"
             ELSE IF r.dict.output_node \notin DOMAIN memory
                     THEN "MISSING_RECEIPT_OUTPUT_NODE"
             ELSE "OK"
\* Critic._validate_receipts from the i-th dependency on: "OK" or the code
\* of the first check that fails.
RECURSIVE _validate_receipts(_, _)
_validate_receipts(receipt_deps, i) ==
    IF i > Len(receipt_deps) THEN "OK"
    ELSE IF receipt_deps[i] \notin DOMAIN memory THEN "MISSING_RECEIPT_NODE"
    ELSE LET r == loads(memory[receipt_deps[i]].data)
         IN  IF ~isinstance_dict(r) THEN "BAD_RECEIPT_ENCODING"
             ELSE IF get(r.dict, "law_hash", None) # critic.law_hash
                     THEN "RECEIPT_LAW_MISMATCH"
             ELSE IF {"output_node", "phase", "goal_id"} \ DOMAIN r.dict # {}
                     THEN "BAD_RECEIPT_SCHEMA"
             ELSE IF r.dict.output_node \notin DOMAIN memory
                     THEN "MISSING_RECEIPT_OUTPUT_NODE"
             ELSE _validate_receipts(receipt_deps, i + 1)

\* replay_and_verify returns (ok, code).
CriticReturns(ok, code) ==
    /\ verdict' = [fn |-> "replay_and_verify", ok |-> ok, code |-> code]
    /\ critic' = NoCritic(critic.monitors)

\* MemoryStore.put(data, parents) is called by a client.
put(data, parents) ==
    /\ critic.pc = "idle" /\ controller.pc = "idle"
    /\ commands < MaxCommands
    /\ commands' = commands + 1
    /\ memory' = MemoryStore_put(memory, data, parents)
    /\ verdict' = [fn |-> "put", h |-> NodeDigest(data, parents)]
    /\ called' = <<>>
    /\ UNCHANGED <<fsVars, ingestVars, before, seen, lockVars, replayVars, critic,
                   controller>>

\* Critic.replay_and_verify(proof, phase) is called.
replay_and_verify(proof, phase) ==
    /\ critic.pc = "idle" /\ controller.pc = "idle"
    /\ commands < MaxCommands
    /\ commands' = commands + 1
    /\ critic' = [critic EXCEPT !.pc = "rv_receipts", !.proof = proof,
                                !.phase = phase]
    /\ verdict' = NoVerdict
    /\ called' = <<>>
    /\ UNCHANGED <<fsVars, ingestVars, before, seen, lockVars, replayVars, memory,
                   controller>>

\* if not proof.steps; ok, code = self._validate_receipts(...); norms = ...
rv_receipts ==
    /\ critic.pc = "rv_receipts"
    /\ IF critic.proof.steps = <<>>
          THEN CriticReturns(FALSE, "EMPTY_PROOF")
       ELSE IF _validate_receipts(critic.proof.receipt_deps, 1) # "OK"
          THEN CriticReturns(FALSE, _validate_receipts(critic.proof.receipt_deps, 1))
       ELSE /\ critic' = [critic EXCEPT !.pc = "rv_step", !.i = 1,
                                        !.norms = Norms(critic.proof.goal_id)]
            /\ verdict' = verdict
    /\ UNCHANGED <<fsVars, ingestVars, histVars, lockVars, replayVars, memory,
                   controller, called>>

\* A critic that takes the declared output for the recomputed one.
OutputMatchesAlways(out_h, output_node) == TRUE
\* if out_h != step.output_node: return False, "REPLAY_MISMATCH"
OutputMatches(out_h, output_node) == out_h = output_node

\* A critic that reports a missing input as a mismatch.
MissingInputMismatch == "REPLAY_MISMATCH"
\* except KeyError: return False, "MISSING_MEMNODE"
MissingInput == "MISSING_MEMNODE"

\* A critic that calls every monitor, whatever the monitors before it said.
MonitorsCalledAll(monitors, event) == monitors
\* for m in self.monitors: if not m.step(event): return ...: the monitors
\* whose step is called, up to the first that rejects the event.
MonitorsCalled(monitors, event) ==
    LET Rejecting == {k \in 1..Len(monitors) : ~Monitor_step(monitors[k], event)}
    IN  IF Rejecting = {} THEN monitors
        ELSE SubSeq(monitors, 1, CHOOSE k \in Rejecting : \A j \in Rejecting : k <= j)

\* One turn of `for step in proof.steps`.
rv_step ==
    /\ critic.pc = "rv_step"
    /\ critic.i <= Len(critic.proof.steps)
    /\ LET step == critic.proof.steps[critic.i]
           in_nodes == [k \in 1..Len(step.inputs) |-> memory[step.inputs[k]]]
           out_bytes == opcode_eval(step, in_nodes)
           out_h == NodeDigest(out_bytes, step.inputs)
           \* norms = replace(norms, ...): the rolling norms after the step
           norms ==
               [critic.norms EXCEPT
                  !.infer_count =
                      @ + (IF step.step_type = "INFER" THEN 1 ELSE 0),
                  !.aggregate_count =
                      @ + (IF step.step_type = "AGGREGATE" THEN 1 ELSE 0),
                  !.decision_count =
                      @ + (IF step.step_type \in {"DECIDE", "ACT"} THEN 1 ELSE 0)]
           \* ObsEvent(phase, step_type, rule_id, deps_count, norms)
           event ==
               [phase |-> critic.phase, step_type |-> step.step_type,
                rule_id |-> step.rule_id, deps_count |-> Len(step.inputs),
                norms |-> norms]
           \* for m in self.monitors: if not m.step(event)
           MonitorsPass ==
               \A k \in 1..Len(critic.monitors) :
                  Monitor_step(critic.monitors[k], event)
       IN  IF \E k \in 1..Len(step.inputs) : step.inputs[k] \notin DOMAIN memory
              THEN /\ CriticReturns(FALSE, MissingInput)
                   /\ memory' = memory
                   /\ called' = <<>>
           ELSE /\ memory' = MemoryStore_put(memory, out_bytes, step.inputs)
                /\ IF ~OutputMatches(out_h, step.output_node)
                      THEN /\ CriticReturns(FALSE, "REPLAY_MISMATCH")
                           /\ called' = <<>>
                   ELSE /\ called' = MonitorsCalled(critic.monitors, event)
                        /\ IF ~MonitorsPass
                              THEN CriticReturns(FALSE, "MONITOR_REJECT")
                              ELSE /\ critic' = [critic EXCEPT !.i = @ + 1,
                                                               !.norms = norms]
                                   /\ verdict' = verdict
    /\ UNCHANGED <<fsVars, ingestVars, histVars, lockVars, replayVars, controller>>

\* A critic that takes any proof in phase ACT.
ActShapeAny(proof) == TRUE
\* if len(proof.steps) != 1 or proof.steps[0].step_type != StepType.ACT
ActShape(proof) == Len(proof.steps) = 1 /\ proof.steps[1].step_type = "ACT"

\* After the loop: the shape of a proof in phase ACT, and ACCEPT.
rv_end ==
    /\ critic.pc = "rv_step"
    /\ critic.i > Len(critic.proof.steps)
    /\ IF critic.phase = "ACT" /\ ~ActShape(critic.proof)
          THEN CriticReturns(FALSE, "BAD_ACT_SHAPE")
          ELSE CriticReturns(TRUE, "ACCEPT")
    /\ UNCHANGED <<fsVars, ingestVars, histVars, lockVars, replayVars, memory,
                   controller, called>>

----------------------------------------------------------------------------
(* Another process writes a source file.                                   *)

WriteSource(path, c) ==
    /\ src[path] # c
    /\ src' = [src EXCEPT ![path] = c]
    /\ UNCHANGED <<objects, tmps, nodes, refs, pc, args, artifact_id, transform,
                   sb, buf, fd, node, result, histVars>>
    /\ UNCHANGED auxVars

----------------------------------------------------------------------------
(* Specifications                                                          *)

\* The steps of a running ingest.
IngestStep(p) ==
    \/ ingest_hash(p)
    \/ sb_exists(p)
    \/ sb_read(p)
    \/ sb_open(p)
    \/ sb_write(p)
    \/ sb_replace(p)
    \/ ingest_transform(p)
    \/ ingest_node(p)
    \/ wm_exists(p)
    \/ wm_open(p)
    \/ wm_write(p)

\* Spec: two processes run ingest and use the session lock concurrently,
\* while the source file is written and manifests are read.
Next ==
    \/ \E p \in Procs, parent \in ParentLists, tf \in {NoFile, "t.py"} :
          cmd_ingest(p, "a.bin", parent, tf)
    \/ \E p \in Procs : IngestStep(p)
    \/ \E p \in Procs : ingest_session_lock(p)
    \/ \E c \in Contents : WriteSource("a.bin", c)
    \/ \E id \in ArtifactIds : read_node_manifest(id)

Spec == Init /\ [][Next]_vars

\* SeqSpec: the commands of the ledger run one after the other (a process
\* steps only while no other process is inside a command); the source file
\* is still written at any moment.
Alone(p) == \A q \in Procs \ {p} : pc[q] = "idle"
\* Transform(name="admit", digest=sha256_bytes(b"admit"), params={})
Utf8Admit == <<97, 100, 109, 105, 116>>
AdmitNodes == {[id |-> id, parents |-> parents,
                transform |-> [NoTransform EXCEPT
                                  !.name = Utf8Admit,
                                  !.digest = sha256_bytes(Utf8Admit)]] :
                  id \in ArtifactIds, parents \in ParentLists}

SeqNext ==
    \/ \E p \in Procs, parent \in ParentLists, tf \in {NoFile, "t.py"} :
          Alone(p) /\ cmd_ingest(p, "a.bin", parent, tf)
    \/ \E p \in Procs : Alone(p) /\ IngestStep(p)
    \/ \E p \in Procs, digest \in ArtifactIds :
          Alone(p) /\ store_blob(p, "a.bin", digest)
    \/ \E p \in Procs : Alone(p) /\ returned(p)
    \/ \E p \in Procs, n \in AdmitNodes : Alone(p) /\ write_node_manifest(p, n)
    \/ \E p \in Procs, id \in ArtifactIds : Alone(p) /\ cmd_refs_set(p, "head", id)
    \/ \E p \in Procs : Alone(p) /\ refs_write(p)
    \/ \E c \in Contents : WriteSource("a.bin", c)

SeqSpec == Init /\ [][SeqNext]_vars

\* StoreSpec: two processes call store_blob concurrently for the digest of
\* the source file, which nobody writes.
StoreNext ==
    \/ \E p \in Procs : store_blob(p, "a.bin", sha256_file(src, "a.bin"))
    \/ \E p \in Procs : sb_exists(p)
    \/ \E p \in Procs : sb_read(p)
    \/ \E p \in Procs : sb_open(p)
    \/ \E p \in Procs : sb_write(p)
    \/ \E p \in Procs : sb_replace(p)
    \/ \E p \in Procs : returned(p)

StoreSpec == Init /\ [][StoreNext]_vars

\* The repositories replay and verification are run on are left by earlier
\* commands, a checkout or another tool: a derived node out_id, its parent
\* p1_id, the transform t_id and the environment description env_id.
out_id == sha256_bytes(<<1>>)
p1_id == sha256_bytes(<<2>>)
t_id == sha256_bytes(TransformSource)
\* The environment description (a lockfile) and its digest.
EnvSource == <<4>>
env_id == sha256_bytes(EnvSource)
\* An id of 64 hex digits that names nothing in the repository.
NowhereId == sha256_bytes(<<5>>)
\* A str that is no id.
ShortStr == [str |-> <<"a", "b", "c">>]
\* A key that the JSON object does not have.
Absent == [absent |-> TRUE]

\* The JSON object with the keys that are not Absent.
TransformDict(digest, env_digest, runner, params) ==
    LET all == [name |-> [str |-> <<"t">>], digest |-> digest,
                env_digest |-> env_digest, runner |-> runner, params |-> params]
    IN  [dict |-> [k \in {x \in DOMAIN all : all[x] # Absent} |-> all[k]]]
\* The values of "transform" in a manifest: no object, or an object whose
\* keys hold the values the code tells apart.
TransformValues ==
    LET DigestValues == {t_id, ShortStr, Absent}
        EnvDigestValues == {Absent, env_id, ShortStr}
        RunnerValues ==
            {Absent, [list |-> <<[str |-> Python3]>>],
             [str |-> <<" ", "s", "h">>], [list |-> <<>>],
             [list |-> <<[int |-> 3]>>], [str |-> <<" ">>],
             [list |-> <<[str |-> <<"n", "o">>]>>]}
        ParamsValues == {EmptyParams, [list |-> <<>>]}
    IN  {ShortStr} \cup
        {TransformDict(d, e, r, q) : d \in DigestValues, e \in EnvDigestValues,
                                     r \in RunnerValues, q \in ParamsValues}
\* The texts a manifest file of id may hold, for the given transforms.
ManifestTexts(id, transforms) ==
    LET ParentsValues ==
            {[list |-> <<>>], [list |-> <<p1_id>>],
             [list |-> <<p1_id, ShortStr>>], [list |-> <<ShortStr, NowhereId>>],
             [list |-> <<out_id, p1_id>>], ShortStr}
    IN  {<<>>} \cup {<<[id |-> id, parents |-> ps, transform |-> t]>> :
                        ps \in ParentsValues, t \in transforms}
\* The manifest of an admitted node.
AdmitText(id) ==
    json_dumps(to_dict([id |-> id, parents |-> <<>>,
                        transform |-> [NoTransform EXCEPT
                                          !.name = Utf8Admit,
                                          !.digest = sha256_bytes(Utf8Admit)]]))

\* No command and no call is running; the ledger is empty.
Idle ==
    /\ src \in {f \in [Files -> Contents \cup {TransformSource}] :
                   f["a.bin"] = <<1>> /\ f["t.py"] = TransformSource}
    /\ tmps = EmptyDir
    /\ refs = EmptyDir
    /\ pc = [p \in Procs |-> "idle"]
    /\ args = [p \in Procs |-> NoArgs]
    /\ artifact_id = [p \in Procs |-> sha256_bytes(<<>>)]
    /\ transform = [p \in Procs |-> NoTransform]
    /\ sb = [p \in Procs |-> NoCall]
    /\ buf = [p \in Procs |-> <<>>]
    /\ fd = [p \in Procs |-> "closed"]
    /\ node = [p \in Procs |-> NoNode]
    /\ result = [p \in Procs |-> "none"]
    /\ commands = 0
    /\ before = [p \in Procs |-> {}]
    /\ seen = EmptyDir
    /\ environ = EmptyDir
    /\ enabled = <<>>
    /\ wds = EmptyDir
    /\ rp = NoReplay
    /\ vn = NoVerify
    /\ vreach = NoReachable
    /\ ret = NoReturn
    /\ ran = 0
    /\ wrote = FALSE

\* The proof kernel is not used.
KernelIdle ==
    /\ memory = EmptyDir
    /\ critic = NoCritic(BuiltinMonitors)
    /\ verdict = NoVerdict
    /\ controller = Controller(critic)
    /\ called = <<>>
    /\ audit = NoAudit(memory)

\* ReplaySpec: replay_node is called, one call after the other, for out_id,
\* whose manifest is any of ManifestTexts, and for p1_id, which is admitted
\* or has no manifest; the objects of out_id and p1_id hold their own bytes.
ReplayInit ==
    /\ Idle
    /\ KernelIdle
    /\ \E D \in SUBSET {p1_id, t_id, env_id} :
          objects = [d \in D \cup {out_id} |->
                        IF d = out_id THEN <<1>>
                        ELSE IF d = p1_id THEN <<2>>
                        ELSE IF d = t_id THEN TransformSource
                        ELSE EnvSource]
    /\ \E M \in SUBSET {out_id, p1_id},
          text \in ManifestTexts(out_id, TransformValues) :
          nodes = [id \in M |-> IF id = out_id THEN text ELSE AdmitText(p1_id)]

ReplayNext ==
    \/ \E id \in {out_id, p1_id}, workdir \in {None, [path |-> CallerDir]},
          keep \in BOOLEAN : replay_node(id, workdir, keep)
    \/ rp_manifest
    \/ rp_workdir
    \/ rp_parent
    \/ rp_materialized
    \/ \E returncode \in {0, 1}, out \in RunnerWrites, stdout \in RunnerPrints,
          stderr \in RunnerPrints : rp_run(returncode, out, stdout, stderr)
    \/ rp_check
    \/ tmp_ctx_finalize

ReplaySpec == ReplayInit /\ [][ReplayNext]_vars

\* VerifySpec: verify_node, verify_reachable and replay_node are called, one
\* call after the other, for out_id and p1_id.  The object of out_id is
\* absent, holds its own bytes or holds other bytes; the manifest of out_id
\* is absent or any of ManifestTexts; p1_id is admitted or has no manifest.
\* The transforms of the manifests are one that can be replayed with the
\* default runner, and one that is no JSON object.
VerifyInit ==
    /\ Idle
    /\ KernelIdle
    /\ \E D \in SUBSET {out_id, p1_id, t_id} :
       \E c \in Contents :
          objects = [d \in D |-> IF d = out_id THEN c
                                 ELSE IF d = p1_id THEN <<2>>
                                 ELSE TransformSource]
    /\ \E M \in SUBSET {out_id, p1_id},
          text \in ManifestTexts(out_id,
                     {TransformDict(t_id, Absent, Absent, EmptyParams),
                      ShortStr}) :
          nodes = [id \in M |-> IF id = out_id THEN text ELSE AdmitText(p1_id)]

VerifyNext ==
    \/ \E id \in {out_id, p1_id}, replay \in BOOLEAN : verify_node(id, replay)
    \/ vn_check
    \/ \E root_id \in {out_id, p1_id}, replay \in BOOLEAN :
          verify_reachable(root_id, replay)
    \/ vr_pop
    \/ vr_parents
    \/ \E id \in {out_id, p1_id}, workdir \in {None, [path |-> CallerDir]},
          keep \in BOOLEAN : replay_node(id, workdir, keep)
    \/ rp_manifest
    \/ rp_workdir
    \/ rp_parent
    \/ rp_materialized
    \/ \E returncode \in {0, 1}, out \in RunnerWrites, stdout \in RunnerPrints,
          stderr \in RunnerPrints : rp_run(returncode, out, stdout, stderr)
    \/ rp_check
    \/ tmp_ctx_finalize

VerifySpec == VerifyInit /\ [][VerifyNext]_vars

\* The manifest files of the graphs that are traversed, absent ones left
\* out: the root out_id lists two parents, one parent twice, itself, a str
\* that is no id or an id without manifest; p1_id and t_id list env_id, so
\* that the graph is a diamond, or p1_id lists the root, which is a cycle;
\* the manifest of env_id may be an empty file.  NodeText is a manifest
\* written by hand or by another tool: the node id with the given parents
\* and the transform of an admission.
ReachGraphs ==
    LET NodeText(id, parents) ==
            <<[id |-> id, parents |-> [list |-> parents],
               transform |-> json_loads(AdmitText(id)).transform]>>
    IN
    {[id \in {out_id} \cup {x \in {p1_id, t_id, env_id} :
                                IF x = p1_id THEN a # Absent
                                ELSE IF x = t_id THEN b # Absent ELSE c # Absent} |->
         IF id = out_id THEN NodeText(out_id, r)
         ELSE IF id = p1_id THEN NodeText(p1_id, a.list)
         ELSE IF id = t_id THEN NodeText(t_id, b.list)
         ELSE IF c = ShortStr THEN <<>> ELSE NodeText(env_id, c.list)] :
       r \in {<<p1_id, t_id>>, <<p1_id, p1_id>>, <<out_id>>, <<p1_id, ShortStr>>,
              <<NowhereId>>},
       a \in {Absent, [list |-> <<>>], [list |-> <<env_id>>], [list |-> <<out_id>>]},
       b \in {Absent, [list |-> <<>>], [list |-> <<env_id>>]},
       c \in {Absent, [list |-> <<>>], ShortStr}}

\* ReachSpec: verify_reachable is called for the root out_id, one call after
\* the other, on the graphs of ReachGraphs; every object holds the bytes of
\* its id, and the object of env_id may be missing.
ReachInit ==
    /\ Idle
    /\ KernelIdle
    /\ \E D \in {{out_id, p1_id, t_id}, {out_id, p1_id, t_id, env_id}} :
          objects = [d \in D |-> d.sha256]
    /\ nodes \in ReachGraphs

ReachNext ==
    \/ \E replay \in {FALSE} : verify_reachable(out_id, replay)
    \/ vr_pop
    \/ vn_check
    \/ vr_parents

ReachSpec == ReachInit /\ [][ReachNext]_vars

\* The loop of verify_reachable and the calls it makes are run to their end:
\* nothing in them blocks.
ReachLiveSpec ==
    /\ ReachInit
    /\ [][ReachNext]_vars
    /\ WF_vars(vr_pop)
    /\ WF_vars(vn_check)
    /\ WF_vars(vr_parents)

\* ConcSpec: a reader process runs verify_node and verify_reachable while the
\* process A runs ingest commands; each step of verify sees the files as the
\* ingest has left them at that moment.
ConcNext ==
    \/ \E parent \in ParentLists, tf \in {NoFile, "t.py"} :
          cmd_ingest("A", "a.bin", parent, tf)
    \/ IngestStep("A")
    \/ \E id \in ArtifactIds, replay \in {FALSE} : verify_node(id, replay)
    \/ vn_check
    \/ \E root_id \in ArtifactIds, replay \in {FALSE} :
          verify_reachable(root_id, replay)
    \/ vr_pop
    \/ vr_parents

ConcSpec == Init /\ [][ConcNext]_vars

\* The memories and proofs the proof kernel is run on.
\* b"input-data" and the digest put returns for it without parents.
InputData == RawBytes(1)
InputId == NodeDigest(InputData, <<>>)
\* A digest ("deadbeef") of nothing that is ever put.
DeadBeef == NodeDigest(RawBytes(0), <<>>)
\* canonical_json(asdict(Receipt(...))), with the keys that are not Absent.
ReceiptData(law_hash, phase, goal_id, output_node) ==
    LET all == [law_hash |-> law_hash, phase |-> phase, goal_id |-> goal_id,
                output_node |-> output_node]
    IN  canonical_json([dict |-> [k \in {x \in DOMAIN all : all[x] # Absent} |->
                                     all[k]]])
\* A receipt of this critic for InputId, and data that fail one check each:
\* an output that is not in memory, another law, no law_hash, no goal_id,
\* a JSON list, bytes that are no JSON.
GoodReceipt == ReceiptData(LAW_HASH, [str |-> "INGEST"], [str |-> "g"], InputId)
BadReceipts ==
    <<ReceiptData(LAW_HASH, [str |-> "INGEST"], [str |-> "g"], DeadBeef),
      ReceiptData(sha256_bytes(RawBytes(0)), [str |-> "INGEST"], [str |-> "g"], InputId),
      ReceiptData(Absent, [str |-> "INGEST"], [str |-> "g"], InputId),
      ReceiptData(LAW_HASH, [str |-> "INGEST"], Absent, InputId),
      canonical_json([list |-> <<>>]),
      RawBytes(2)>>
\* The memory after put(d) for every d of the sequence.
RECURSIVE PutAll(_)
PutAll(ds) ==
    IF ds = <<>> THEN EmptyDir
    ELSE MemoryStore_put(PutAll(SubSeq(ds, 1, Len(ds) - 1)), ds[Len(ds)], <<>>)

\* Step(step_type, rule_id, inputs, params, output_node)
Step(step_type, inputs, output_node) ==
    [step_type |-> step_type, rule_id |-> "r", inputs |-> inputs,
     params |-> EmptyParams, output_node |-> output_node]
\* The step that declares the output the recomputation gives, with the
\* inputs taken from store.
Sound(store, step_type, inputs) ==
    Step(step_type, inputs,
         NodeDigest(opcode_eval(Step(step_type, inputs, DeadBeef),
                                [k \in 1..Len(inputs) |-> store[inputs[k]]]),
                    inputs))
\* A step over the output of the EXTRACT step, which is in memory once that
\* step has been replayed.
FirstStep == Sound(PutAll(<<InputData>>), "EXTRACT", <<InputId>>)
ChainedStep ==
    Sound(MemoryStore_put(PutAll(<<InputData>>),
                          opcode_eval(FirstStep, <<MemNode(InputData, <<>>)>>),
                          <<InputId>>),
          "INFER", <<FirstStep.output_node>>)
\* The proofs that are submitted: the empty proof; one step, two steps;
\* no step or one step with receipts.
Proofs ==
    LET \* Steps of every type over the input node and, for the types that
        \* may stand without premises, over no input.
        SoundSteps ==
            {Sound(PutAll(<<InputData>>), t, <<InputId>>) : t \in StepType}
                \cup {Sound(PutAll(<<InputData>>), t, <<>>) :
                         t \in {"PARSE", "INFER", "DECIDE", "ACT"}}
        \* Steps that declare another output than the recomputed one.
        UnsoundSteps ==
            {Step(t, <<InputId>>, DeadBeef) : t \in {"EXTRACT", "ACT"}}
        \* Steps with an input that is not in memory.
        DanglingSteps ==
            {Step("EXTRACT", <<DeadBeef>>, DeadBeef),
             Step("ACT", <<InputId, DeadBeef>>, DeadBeef)}
        \* Receipt dependencies: none, the good receipt, a digest of nothing,
        \* a good receipt before a bad one, two bad ones, each bad one.
        ReceiptDeps ==
            {<<>>, <<NodeDigest(GoodReceipt, <<>>)>>, <<DeadBeef>>,
             <<NodeDigest(GoodReceipt, <<>>), NodeDigest(BadReceipts[1], <<>>)>>,
             <<NodeDigest(BadReceipts[4], <<>>), NodeDigest(BadReceipts[6], <<>>)>>}
                \cup {<<NodeDigest(BadReceipts[k], <<>>)>> :
                         k \in 1..Len(BadReceipts)}
    IN
    {[goal_id |-> "g", steps |-> <<>>, receipt_deps |-> <<>>]}
    \cup {[goal_id |-> "g", steps |-> <<st>>, receipt_deps |-> <<>>] :
             st \in SoundSteps \cup UnsoundSteps \cup DanglingSteps}
    \cup {[goal_id |-> "g", steps |-> <<s1, s2>>, receipt_deps |-> <<>>] :
             s1 \in {FirstStep, Sound(PutAll(<<InputData>>), "ACT", <<InputId>>),
                     Sound(PutAll(<<InputData>>), "INFER", <<>>),
                     Step("EXTRACT", <<InputId>>, DeadBeef)},
             s2 \in {ChainedStep, Step("EXTRACT", <<DeadBeef>>, DeadBeef),
                     Sound(PutAll(<<InputData>>), "ACT", <<InputId>>),
                     Sound(PutAll(<<InputData>>), "ENTITY_BIND", <<InputId>>),
                     Step("EXTRACT", <<InputId>>, DeadBeef)}}
    \cup {[goal_id |-> "g", steps |-> ss, receipt_deps |-> deps] :
             ss \in {<<>>, <<FirstStep>>}, deps \in ReceiptDeps}

----------------------------------------------------------------------------
(* Proof kernel: the controller, src/memory_system.py                      *)

\* A client reads the memory: MemoryStore.get(h) returns self.store[h] or
\* raises KeyError.
MemoryStore_get(h) ==
    /\ critic.pc = "idle" /\ controller.pc = "idle"
    /\ verdict' = IF h \in DOMAIN memory
                      THEN [fn |-> "get", h |-> h, node |-> memory[h]]
                      ELSE [fn |-> "get", h |-> h, raised |-> "KeyError"]
    /\ called' = <<>>
    /\ UNCHANGED <<fsVars, ingestVars, histVars, lockVars, replayVars, memory,
                   critic, controller>>

\* A controller that moves through the phases in their order only.
advance_phase_in_order(phase) ==
    /\ critic.pc = "idle" /\ controller.pc = "idle"
    /\ \E k \in 1..5 :
          /\ controller.phase = <<"INGEST", "TRAVERSE", "ANALYZE", "HYPOTHESIZE",
                                  "DECIDE", "ACT">>[k]
          /\ phase = <<"INGEST", "TRAVERSE", "ANALYZE", "HYPOTHESIZE",
                       "DECIDE", "ACT">>[k + 1]
    /\ controller' = [controller EXCEPT !.phase = phase]
    /\ verdict' = [fn |-> "advance_phase", phase |-> phase]
    /\ called' = <<>>
    /\ UNCHANGED <<fsVars, ingestVars, histVars, lockVars, replayVars, memory,
                   critic>>
\* Controller.advance_phase(phase): self.phase = phase
advance_phase(phase) ==
    /\ critic.pc = "idle" /\ controller.pc = "idle"
    /\ controller' = [controller EXCEPT !.phase = phase]
    /\ verdict' = [fn |-> "advance_phase", phase |-> phase]
    /\ called' = <<>>
    /\ UNCHANGED <<fsVars, ingestVars, histVars, lockVars, replayVars, memory,
                   critic>>

\* Controller.submit(proof) is called: it calls
\* self.critic.replay_and_verify(proof, self.phase).
submit(proof) ==
    /\ critic.pc = "idle" /\ controller.pc = "idle"
    /\ commands < MaxCommands
    /\ commands' = commands + 1
    /\ controller' = [controller EXCEPT !.pc = "submit", !.proof = proof]
    /\ critic' = [critic EXCEPT !.pc = "rv_receipts", !.proof = proof,
                                !.phase = controller.phase]
    /\ verdict' = NoVerdict
    /\ called' = <<>>
    /\ UNCHANGED <<fsVars, ingestVars, before, seen, lockVars, replayVars, memory>>

\* A controller that commits whatever the critic says.
RejectedNever(v) == FALSE
\* if not ok: return False, code
Rejected(v) == ~v.ok

\* A controller that takes the output of the first step for the final one.
first_node(proof) == proof.steps[1].output_node
\* final_node = proof.steps[-1].output_node
final_node(proof) == proof.steps[Len(proof.steps)].output_node

\* A receipt that also tells the call that minted it.
ReceiptNumbered(law_hash, phase, goal_id, output_node) ==
    ReceiptData(law_hash, [str |-> phase], [int |-> commands], output_node)
\* A receipt of the law of another critic.
ReceiptOfOtherLaw(law_hash, phase, goal_id, output_node) ==
    ReceiptData(sha256_bytes(RawBytes(0)), [str |-> phase], [str |-> goal_id],
                output_node)
\* canonical_json(asdict(Receipt(law_hash, phase, goal_id, output_node)))
Receipt(law_hash, phase, goal_id, output_node) ==
    ReceiptData(law_hash, [str |-> phase], [str |-> goal_id], output_node)

\* The critic has returned to submit: the code is propagated, or the receipt
\* is put with the final node as its parent and COMMITTED is returned.
sm_receipt ==
    /\ controller.pc = "submit" /\ critic.pc = "idle"
    /\ IF Rejected(verdict)
          THEN /\ memory' = memory
               /\ controller' = [controller EXCEPT !.pc = "idle",
                                                   !.proof = critic.proof]
               /\ verdict' = [fn |-> "submit", ok |-> FALSE, code |-> verdict.code]
          ELSE LET receipt == Receipt(controller.law_hash, controller.phase,
                                      controller.proof.goal_id,
                                      final_node(controller.proof))
                   parents == <<final_node(controller.proof)>>
               IN  /\ memory' = MemoryStore_put(memory, receipt, parents)
                   /\ controller' = [controller EXCEPT
                          !.pc = "idle", !.proof = critic.proof,
                          !.last_receipt_id = NodeDigest(receipt, parents)]
                   /\ verdict' = [fn |-> "submit", ok |-> TRUE, code |-> "COMMITTED"]
    /\ UNCHANGED <<fsVars, ingestVars, histVars, lockVars, replayVars, critic,
                   called>>

\* What the step that is taken adds to the history of the calls.
Observed ==
    audit' =
        [before |-> IF critic.pc = "idle" /\ controller.pc = "idle"
                       THEN memory ELSE audit.before,
         accepted |-> IF critic.pc # "idle" /\ critic'.pc = "idle" /\ verdict'.ok
                         THEN audit.accepted \cup {<<critic.proof, critic.phase>>}
                         ELSE audit.accepted,
         committed |-> IF controller.pc = "submit" /\ controller'.pc = "idle"
                          /\ verdict'.ok
                          THEN audit.committed \cup
                               {[proof |-> controller.proof,
                                 phase |-> controller.phase,
                                 id |-> controller'.last_receipt_id]}
                          ELSE audit.committed,
         puts |-> audit.puts \cup (DOMAIN memory' \ DOMAIN memory)
                     \cup (IF critic.pc = "idle" /\ controller.pc = "idle"
                              /\ verdict'.fn = "put"
                              THEN {verdict'.h} ELSE {})]

\* The proofs that are submitted to the controller: a proof of one step for
\* the phase INGEST and one for the phase ACT; two chained steps, for the
\* phases ANALYZE and HYPOTHESIZE; a sound step followed by one that
\* declares another output than the recomputed one, and by one whose input
\* is not in memory; two ACT steps; a receipt dependency that is not in
\* memory.
ControllerProofs ==
    LET ParseStep == Sound(PutAll(<<InputData>>), "PARSE", <<InputId>>)
        ActStep == Sound(PutAll(<<InputData>>), "ACT", <<InputId>>)
    IN  {[goal_id |-> "g", steps |-> ss, receipt_deps |-> <<>>] :
            ss \in {<<ParseStep>>, <<ActStep>>, <<ActStep, ActStep>>,
                    <<FirstStep, ChainedStep>>,
                    <<FirstStep, Step("EXTRACT", <<InputId>>, DeadBeef)>>,
                    <<FirstStep, Step("EXTRACT", <<DeadBeef>>, DeadBeef)>>}}
        \cup {[goal_id |-> "g", steps |-> <<ParseStep>>,
               receipt_deps |-> <<DeadBeef>>]}
\* The proofs of one PARSE step that depend on the last receipt, for the
\* goal of the receipt or for another goal.
DependentProofs(last_receipt_id) ==
    {[p EXCEPT !.goal_id = g, !.receipt_deps = <<last_receipt_id>>] :
        p \in {q \in ControllerProofs :
                  /\ Len(q.steps) = 1 /\ q.steps[1].step_type = "PARSE"
                  /\ q.receipt_deps = <<>>},
        g \in IF last_receipt_id = None THEN {} ELSE {"g", "h"}}

\* ControllerSpec: a client puts and gets data, moves the controller from
\* phase to phase, and calls submit and replay_and_verify, one call after
\* the other; the critic has the built-in monitors, and the memory holds
\* the input.
ControllerInit ==
    /\ Idle
    /\ objects = EmptyDir
    /\ nodes = EmptyDir
    /\ memory = PutAll(<<InputData>>)
    /\ critic = NoCritic(BuiltinMonitors)
    /\ verdict = NoVerdict
    /\ controller = Controller(critic)
    /\ called = <<>>
    /\ audit = NoAudit(memory)

ControllerNext ==
    \/ \E data \in {InputData}, parents \in {<<>>, <<InputId>>} :
          put(data, parents) /\ Observed
    \/ \E h \in {InputId, DeadBeef, controller.last_receipt_id} \ {None} :
          MemoryStore_get(h) /\ Observed
    \/ \E phase \in Phase : advance_phase(phase) /\ Observed
    \/ \E proof \in ControllerProofs
                        \cup DependentProofs(controller.last_receipt_id) :
          submit(proof) /\ Observed
    \/ \E proof \in ControllerProofs
                        \cup DependentProofs(controller.last_receipt_id) :
          replay_and_verify(proof, controller.phase) /\ Observed
    \/ rv_receipts /\ Observed
    \/ rv_step /\ Observed
    \/ rv_end /\ Observed
    \/ sm_receipt /\ Observed

ControllerSpec == ControllerInit /\ [][ControllerNext]_vars

\* KernelSpec: a client puts data and calls replay_and_verify, one call
\* after the other, on a critic with the built-in monitors or with none.
\* The memory is empty, or holds the input, or the input and every receipt.
KernelInit ==
    /\ Idle
    /\ objects = EmptyDir
    /\ nodes = EmptyDir
    /\ memory \in {PutAll(<<>>), PutAll(<<InputData>>),
                   PutAll(<<InputData, GoodReceipt>> \o BadReceipts)}
    /\ critic \in {NoCritic(<<>>), NoCritic(BuiltinMonitors)}
    /\ verdict = NoVerdict
    /\ controller = Controller(critic)
    /\ called = <<>>
    /\ audit = NoAudit(memory)

KernelNext ==
    \/ \E data \in {InputData, GoodReceipt}, parents \in {<<>>, <<InputId>>} :
          put(data, parents) /\ UNCHANGED audit
    \/ \E proof \in Proofs, phase \in Phase :
          replay_and_verify(proof, phase) /\ UNCHANGED audit
    \/ rv_receipts /\ UNCHANGED audit
    \/ rv_step /\ UNCHANGED audit
    \/ rv_end /\ UNCHANGED audit

KernelSpec == KernelInit /\ [][KernelNext]_vars

\* EnvSpec: the lock policy is asked while the environment changes.
EnvNext ==
    \/ \E v \in EnvValues : setenv(v)
    \/ unsetenv
    \/ \E flag \in BOOLEAN : ingest_session_lock_enabled(flag)

EnvSpec == Init /\ [][EnvNext]_vars

----------------------------------------------------------------------------
(* Claims                                                                  *)

\* C1: when the ledger's commands run one after the other, a manifest that
\* has been written is never modified or deleted, and write_node_manifest for
\* an id whose manifest file exists fails with FileExistsError and leaves
\* every manifest as it is.
C1_ManifestImmutable ==
    [][/\ \A id \in DOMAIN nodes :
             /\ id \in DOMAIN nodes'
             /\ nodes[id] # <<>> => nodes'[id] = nodes[id]
       /\ \A p \in Procs :
             (pc[p] = "wm_exists" /\ node[p].id \in DOMAIN nodes
                  /\ pc'[p] # "wm_exists")
                => (result'[p] = "FileExistsError" /\ nodes' = nodes)]_vars

\* C1 witness: a second write for an id failed with FileExistsError and the
\* manifest written first is on disk.
C1_Witness ==
    \E p \in Procs : /\ result[p] = "FileExistsError"
                     /\ \E id \in DOMAIN nodes : nodes[id] # <<>>

\* C2: every manifest nodes/<id>.json has its CAS object, and the SHA-256 of
\* the object's bytes is id.
C2_ManifestHasObject ==
    \A id \in DOMAIN nodes :
        id \in DOMAIN objects /\ sha256_bytes(objects[id]) = id

\* C3: every parent id listed in a manifest has a manifest itself.
C3_ParentsHaveManifests ==
    \A id \in DOMAIN nodes :
        nodes[id] # <<>> =>
            \A i \in 1..Len(nodes[id][1].parents.list) :
                nodes[id][1].parents.list[i] \in DOMAIN nodes

\* C4: with the session lock enabled (the default: no opt-out flag is passed
\* and the environment variable is unset), the ingest transactions (compute
\* digest, store blob, write manifest) of two processes never overlap.
InIngest(p) == pc[p] # "idle" /\ args[p].path # NoFile
C4_IngestSerialized ==
    \A p \in Procs, q \in Procs : p # q => ~(InIngest(p) /\ InIngest(q))

\* C6: a process that enters the ingest session lock, as the holder and the
\* waiter of the lock test do, runs to completion and exits normally, never
\* with an uncaught exception.
C6_LockUsersExitNormally ==
    \A p \in Procs : result[p] # "TypeError"

\* C7: the manifest file of an id is never written by two writers: at most
\* one write_node_manifest call for the id gets past the existence test.
Writing(p) == pc[p] \in {"wm_open", "wm_write"}
C7_SingleWriter ==
    \A p \in Procs, q \in Procs :
        p # q => ~(Writing(p) /\ Writing(q) /\ node[p].id = node[q].id)

\* C8: once a reader has read the manifest file of a node, every later read
\* of the file returns the text of that first read.
C8_ReadsRepeat ==
    \A id \in DOMAIN seen : nodes[id] = seen[id]

\* C9: when two processes call store_blob concurrently for the digest of the
\* same unchanging source, no call ends with an error and the destination
\* either does not exist or holds the complete bytes of the source.
C9_ConcurrentPutSafe ==
    /\ \A p \in Procs : result[p] # "FileNotFoundError"
    /\ \A d \in DOMAIN objects : objects[d] = src["a.bin"]

\* C10: when the destination exists as store_blob tests it, the call returns
\* without entering its copy, so the destination holds the bytes it held
\* before, no temporary file is left, whatever the source file contains.
Copying(p) == pc[p] \in {"sb_read", "sb_open", "sb_write", "sb_replace"}
StoreBlobReturned(p) == sb[p] # NoCall /\ pc[p] = sb[p].ret
C10_StoreBlobIdempotent ==
    \A p \in Procs :
        before[p] # {} =>
            /\ ~Copying(p)
            /\ StoreBlobReturned(p) =>
                  /\ sb[p].digest \in DOMAIN objects
                  /\ objects[sb[p].digest] \in before[p]
                  /\ sb[p].digest \notin DOMAIN tmps

\* C10 witness: store_blob has returned for a destination that existed, while
\* the source file holds other bytes than the destination.
C10_Witness ==
    \E p \in Procs : /\ StoreBlobReturned(p)
                     /\ before[p] # {}
                     /\ src[sb[p].src] \notin before[p]

\* C11: within an ingest the artifact blob, and the transform blob when a
\* transform file is given, are stored before the manifest is written: in
\* every state in which the manifest file of id exists, the CAS object of id
\* exists, and so does the object of the transform digest it records.
C11_BlobBeforeManifest ==
    /\ \A id \in DOMAIN nodes : id \in DOMAIN objects
    /\ \A p \in Procs :
          (pc[p] \in {"wm_open", "wm_write"} /\ args[p].transform_file # NoFile)
              => node[p].transform.digest \in DOMAIN objects
    /\ \A id \in DOMAIN nodes :
          (nodes[id] # <<>> /\ nodes[id][1].transform.dict.name = Utf8TransformName)
              => nodes[id][1].transform.dict.digest \in DOMAIN objects

\* C11 witness: the manifest of an artifact ingested with a transform file is
\* on disk, with the objects of the artifact and of the transform.
C11_Witness ==
    \E id \in DOMAIN nodes :
        /\ nodes[id] # <<>>
        /\ nodes[id][1].transform.dict.name = Utf8TransformName
        /\ id \in DOMAIN objects
        /\ nodes[id][1].transform.dict.digest \in DOMAIN objects

\* The values the specification names as falsey.
FalseyWords == {<<"0">>, <<"f", "a", "l", "s", "e">>, <<"n", "o">>, <<"n">>,
                <<"o", "f", "f">>}
\* The call that has just returned, and what it returned.
JustCalled == Len(enabled') = Len(enabled) + 1
LastCall == enabled'[Len(enabled')]
\* v is the word w in some mix of upper and lower case.
IsWord(v, w) == lower(v) = w
\* v is the word w in some mix of case, with whitespace before and after it.
IsPaddedWord(v, w) ==
    \E i \in 1..Len(v), j \in 1..Len(v) :
        /\ i <= j
        /\ IsWord(SubSeq(v, i, j), w)
        /\ \A k \in 1..Len(v) : (k < i \/ k > j) => v[k] \in Whitespace

\* C12 as stated: every call of ingest_session_lock_enabled returns False
\* exactly when the opt-out flag is passed or the variable is, at the time of
\* that call, set to one of 0, false, no, n, off in any mix of case, and
\* returns True otherwise.
C12_EnabledUnlessFalsey ==
    [][JustCalled =>
          (LastCall.result = FALSE <=>
              \/ LastCall.cli_no_session_lock
              \/ /\ LockVariable \in DOMAIN environ
                 /\ \E w \in FalseyWords : IsWord(environ[LockVariable], w))]_vars

\* C12 amended: every call of ingest_session_lock_enabled returns False
\* exactly when the opt-out flag is passed or the variable is, at the time of
\* that call, set to one of 0, false, no, n, off in any mix of case, with
\* or without whitespace around it, and returns True otherwise.
C12_EnabledUnlessPaddedFalsey ==
    [][JustCalled =>
          (LastCall.result = FALSE <=>
              \/ LastCall.cli_no_session_lock
              \/ /\ LockVariable \in DOMAIN environ
                 /\ \E w \in FalseyWords : IsPaddedWord(environ[LockVariable], w))]_vars

\* C12 witness: two calls without the opt-out flag, the first returned True
\* and the second, after the variable was set to " n", returned False.
C12_Witness ==
    /\ Len(enabled) = 2
    /\ ~enabled[1].cli_no_session_lock /\ enabled[1].result = TRUE
    /\ ~enabled[2].cli_no_session_lock /\ enabled[2].result = FALSE
    /\ LockVariable \in DOMAIN environ
    /\ environ[LockVariable] = <<" ", "n">>

\* C13: ingest_session_lock_path(root) is <root>/ledger/.locks/ingest.lock,
\* and a process that enters ingest_session_lock(root) while nobody holds the
\* lock enters the critical section without raising.
C13_LockEntersWithoutRaising ==
    [][/\ ingest_session_lock_path("repo") = "repo/ledger/.locks/ingest.lock"
       /\ \A p \in Procs : ingest_session_lock(p) => result'[p] = "ok"]_vars

\* The manifest of the node a running replay_node is about can be read.
Readable(id) == id \in DOMAIN nodes /\ Len(nodes[id]) = 1
\* A call returned a result (it did not raise) and the result is ok.
RetOk(r) == "ok" \in DOMAIN r /\ r.ok

\* C14: replay_node on a node whose manifest has an empty parents list
\* returns ok with the node id as output digest, whatever the transform of the
\* manifest is: no working directory is created and no runner is invoked.
C14_AdmissionReplaysAtOnce ==
    [][(/\ rp.pc = "rp_read"
        /\ Readable(rp.node_id)
        /\ nodes[rp.node_id][1].parents = [list |-> <<>>])
          => /\ rp'.pc = "idle"
             /\ ret' = ReplayResult(TRUE, <<>>, rp.node_id, rp.workdir)
             /\ wds' = wds
             /\ ran' = 0]_vars

\* C14 witness: replay_node returned ok for out_id, whose manifest has no
\* parents and a transform digest that no object of the CAS has.
C14_Witness ==
    /\ RetOk(ret) /\ ret.fn = "replay_node" /\ ret.output_digest = out_id
    /\ Readable(out_id)
    /\ nodes[out_id][1].parents = [list |-> <<>>]
    /\ isinstance_dict(nodes[out_id][1].transform)
    /\ "digest" \in DOMAIN nodes[out_id][1].transform.dict
    /\ nodes[out_id][1].transform.dict.digest = t_id
    /\ t_id \notin DOMAIN objects
    /\ ran = 0 /\ wds = EmptyDir

\* The manifest m has non-empty parents and is structurally valid, and the
\* blobs of its transform, its environment and its parents are in the CAS.
Replayable(m) ==
    /\ isinstance_list(m.parents) /\ Len(m.parents.list) > 0
    /\ \A k \in 1..Len(m.parents.list) :
          IsStr64(m.parents.list[k]) /\ m.parents.list[k] \in DOMAIN objects
    /\ isinstance_dict(m.transform)
    /\ "digest" \in DOMAIN m.transform.dict
    /\ IsStr64(m.transform.dict.digest)
    /\ m.transform.dict.digest \in DOMAIN objects
    /\ "env_digest" \in DOMAIN m.transform.dict =>
          /\ IsStr64(m.transform.dict.env_digest)
          /\ m.transform.dict.env_digest \in DOMAIN objects
    /\ "runner" \in DOMAIN m.transform.dict =>
          m.transform.dict.runner \in
             {[list |-> <<[str |-> Python3]>>], [str |-> <<" ", "s", "h">>],
              [list |-> <<[str |-> <<"n", "o">>]>>]}
    /\ isinstance_dict(m.transform.dict.params)
\* replay_node returns or raises in this step.
ReplayEnds == rp.pc # "idle" /\ rp'.pc = "idle"
\* The runner has exited with status 0 and out.bin exists and hashes to id.
RunReproduces(id) ==
    /\ rp.pc = "rp_check"
    /\ rp.proc.returncode = 0
    /\ OutBin \in DOMAIN wds[rp.wd.path]
    /\ sha256_bytes(wds[rp.wd.path][OutBin]) = id

\* C15: for a node with non-empty parents and a structurally valid manifest
\* whose transform, environment and parent blobs are in the CAS, replay_node
\* returns ok exactly when the runner exited with status 0, the output file
\* exists and its SHA-256 is the node id; when the digest differs the result
\* is the one error 'derivation mismatch' with the expected and the obtained
\* digest.
C15_OkIffOutputReproduced ==
    [][(ReplayEnds /\ Readable(rp.node_id) /\ Replayable(nodes[rp.node_id][1]))
          => /\ RetOk(ret') <=> RunReproduces(rp.node_id)
             /\ (/\ rp.pc = "rp_check" /\ rp.proc.returncode = 0
                 /\ OutBin \in DOMAIN wds[rp.wd.path]
                 /\ sha256_bytes(wds[rp.wd.path][OutBin]) # rp.node_id)
                   => /\ ~ret'.ok
                      /\ Len(ret'.errors) = 1
                      /\ ret'.errors[1].expected = rp.node_id
                      /\ ret'.errors[1].got = sha256_bytes(wds[rp.wd.path][OutBin])]_vars

\* C15 witness: replay_node ran the transform of out_id and returned ok with
\* out_id as output digest.
C15_Witness ==
    /\ RetOk(ret) /\ ret.fn = "replay_node" /\ ret.output_digest = out_id
    /\ ran = 1
    /\ Readable(out_id) /\ Replayable(nodes[out_id][1])

\* The structural checks of a manifest in the order the specification gives,
\* each with the message that reports it: "" is a check that passes.
TransformOf(m) == IF isinstance_dict(m.transform) THEN m.transform.dict ELSE <<>>
StructuralChecks(m) ==
    <<IF isinstance_list(m.parents) THEN "" ELSE "manifest.parents not a list",
      IF isinstance_dict(m.transform) THEN "" ELSE "manifest.transform not an object",
      IF "digest" \in DOMAIN TransformOf(m) /\ IsStr64(TransformOf(m).digest)
         THEN "" ELSE "manifest.transform.digest missing/invalid",
      IF "env_digest" \in DOMAIN TransformOf(m) /\ ~IsStr64(TransformOf(m).env_digest)
         THEN "manifest.transform.env_digest invalid (expected 64-hex)" ELSE "",
      IF "runner" \in DOMAIN TransformOf(m) /\
            TransformOf(m).runner \in
               {[list |-> <<>>], [list |-> <<[int |-> 3]>>], [str |-> <<" ">>]}
         THEN "manifest.transform.runner invalid (expected array[str])" ELSE "",
      IF "params" \in DOMAIN TransformOf(m) /\ ~isinstance_dict(TransformOf(m).params)
         THEN "manifest.transform.params not an object" ELSE "",
      IF "digest" \in DOMAIN TransformOf(m) /\ TransformOf(m).digest \notin DOMAIN objects
         THEN "missing transform definition in CAS" ELSE "",
      IF "env_digest" \in DOMAIN TransformOf(m)
            /\ TransformOf(m).env_digest \notin DOMAIN objects
         THEN "missing environment description in CAS" ELSE ""
    >>
\* The messages that name a structural failure (not its details).
IsFailureMessage(e) ==
    \/ e.msg \in {"manifest.parents not a list", "manifest.transform not an object",
                  "manifest.transform.digest missing/invalid",
                  "manifest.transform.env_digest invalid (expected 64-hex)",
                  "manifest.transform.runner invalid (expected array[str])",
                  "manifest.transform.params not an object",
                  "missing transform definition in CAS",
                  "missing environment description in CAS"}
\* The positions of the parents that are no id or have no object.
BadParents(m) ==
    {k \in 1..Len(m.parents.list) :
        ~IsStr64(m.parents.list[k]) \/ m.parents.list[k] \notin DOMAIN objects}

\* C16: when the manifest of a node with parents fails a structural check,
\* replay_node returns the failure of the first check that fails, in the
\* order parents, transform, digest, env_digest, runner, params, transform
\* blob, environment blob, and of no other check; when parents are invalid or
\* missing it returns one error for each of them, in one result; in both
\* cases the runner has not been invoked.
C16_FirstStructuralAllParents ==
    [][(ReplayEnds /\ Readable(rp.node_id)
           /\ nodes[rp.node_id][1].parents # [list |-> <<>>])
        => LET m == nodes[rp.node_id][1]
               failing == {k \in 1..8 : StructuralChecks(m)[k] # ""}
               first == CHOOSE k \in failing : \A j \in failing : k <= j
           IN  /\ failing # {} =>
                    /\ rp.pc = "rp_read" /\ ~ret'.ok /\ ran' = 0
                    /\ ret'.errors[1].msg = StructuralChecks(m)[first]
                    /\ \A k \in 2..Len(ret'.errors) : ~IsFailureMessage(ret'.errors[k])
               /\ (failing = {} /\ BadParents(m) # {}) =>
                    /\ rp.pc = "rp_parent" /\ ~ret'.ok /\ ran' = 0
                    /\ Len(ret'.errors) = Cardinality(BadParents(m))
                    /\ \A k \in BadParents(m) :
                          \E j \in 1..Len(ret'.errors) :
                              ret'.errors[j].pid = m.parents.list[k]]_vars

\* C16 witness: replay_node returned the errors of two parents in one result,
\* and no transform was run.
C16_Witness ==
    /\ ret.fn = "replay_node" /\ "ok" \in DOMAIN ret /\ ~ret.ok
    /\ Len(ret.errors) = 2
    /\ ret.errors[1].msg = "invalid parent id: {pid!r}"
    /\ ret.errors[2].msg = "missing parent object: {parent_obj}"
    /\ ran = 0

\* replay_node returns or raises after it has prepared its working directory.
ReplayEndsAfterWorkdir == ReplayEnds /\ rp.wd # None

C19_FailuresAreResults ==
    ret.fn = "replay_node" =>
        /\ ~IsRaised(ret)
        /\ ~ret.ok => Len(ret.errors) > 0

----------------------------------------------------------------------------
(* C18                                                                      *)

\* C18: no step of replay_node, verify_node or verify_reachable, in a call
\* that succeeds or in one that fails, creates, changes or deletes a file
\* under ledger/objects, ledger/tmp, ledger/nodes or ledger/refs, or a source
\* file: what they write is in the replay working directory.
C18_LedgerReadOnly ==
    [][UNCHANGED <<src, objects, tmps, nodes, refs>>]_vars

\* A replay has run the transform and failed, and the files it wrote are in
\* the working directory the caller gave.
C18_Witness ==
    /\ ret.fn = "replay_node"
    /\ ~IsRaised(ret)
    /\ ~ret.ok
    /\ ran > 0
    /\ CallerDir \in DOMAIN wds
    /\ OutBin \in DOMAIN wds[CallerDir]

----------------------------------------------------------------------------
(* C20                                                                      *)

\* verify_node(id, replay=False), called by the caller, returns or raises.
VerifyNodeEnds ==
    vn.pc = "vn_check" /\ ~vn.replay /\ vn.ret_to = "caller" /\ vn'.pc = "idle"
\* The parents of the readable manifest of id.
ParentsOf(id) == get(json_loads(nodes[id]), "parents", [list |-> <<>>])
ObjectIntact(id) == id \in DOMAIN objects /\ sha256_file(objects, id) = id
BadParent(p) == ~IsStr64(p) \/ p \notin DOMAIN nodes
BadParentsOf(id) ==
    {i \in 1..Len(ParentsOf(id).list) : BadParent(ParentsOf(id).list[i])}
Verified(id) ==
    /\ Readable(id)
    /\ ObjectIntact(id)
    /\ isinstance_list(ParentsOf(id))
    /\ BadParentsOf(id) = {}
\* The number of checks of id that fail.
Failures(id) ==
    (IF ObjectIntact(id) THEN 0 ELSE 1)
    + (IF isinstance_list(ParentsOf(id)) THEN Cardinality(BadParentsOf(id)) ELSE 1)

\* C20: verify_node(id, replay=False) returns ok exactly when the manifest of
\* id exists (and is read), the object of id exists and hashes to id, and
\* parents is a list of ids each of which has a manifest, whatever the
\* objects and the ancestors of the parents are; with a manifest that is
\* read, the one result holds one error for every check that fails.
C20_VerifyNodeChecks ==
    [][VerifyNodeEnds =>
          /\ RetOk(ret') <=> Verified(vn.node_id)
          /\ Readable(vn.node_id) =>
                /\ ~IsRaised(ret')
                /\ Len(ret'.errors) = Failures(vn.node_id)
                /\ ~ObjectIntact(vn.node_id) =>
                      \E k \in 1..Len(ret'.errors) :
                         ret'.errors[k].msg \in
                            {"missing object: {obj}",
                             "object hash mismatch: expected {node_id}, got {digest}"}
                /\ ~isinstance_list(ParentsOf(vn.node_id)) =>
                      \E k \in 1..Len(ret'.errors) :
                         ret'.errors[k].msg = "manifest.parents not a list"
                /\ isinstance_list(ParentsOf(vn.node_id)) =>
                      \A i \in BadParentsOf(vn.node_id) :
                         \E k \in 1..Len(ret'.errors) :
                            /\ "p" \in DOMAIN ret'.errors[k]
                            /\ ret'.errors[k].p = ParentsOf(vn.node_id).list[i]]_vars

\* verify_node(out_id) has returned ok: the parent p1_id has a manifest and
\* no object.  (verify_node with replay, verify_reachable and verify_node of
\* p1_id all fail in this repository.)
C20_Witness ==
    /\ ret.fn = "verify"
    /\ RetOk(ret)
    /\ Readable(out_id)
    /\ ParentsOf(out_id) = [list |-> <<p1_id>>]
    /\ p1_id \in DOMAIN nodes
    /\ p1_id \notin DOMAIN objects

----------------------------------------------------------------------------
(* C21                                                                      *)

\* verify_node(id, replay=True) passes step 3 with a manifest that is read.
VerifyNodeChecked ==
    /\ vn.pc = "vn_check"
    /\ vn.replay
    /\ Readable(vn.node_id)
    /\ vn'.pc # "vn_check"

\* C21: verify_node(id, replay=True) on a node whose manifest exists invokes
\* the replay engine, whatever errors the object and parent checks have
\* accumulated, so that the replay errors are added to them.
C21_ReplayInvoked ==
    [][VerifyNodeChecked => rp'.pc = "rp_read" /\ rp'.node_id = vn.node_id]_vars

----------------------------------------------------------------------------
(* C22, C23                                                                 *)

\* The parents verify_reachable follows from id: the ids in the parents list
\* of a manifest that is read.
FollowedFrom(id) ==
    IF Readable(id) /\ isinstance_list(ParentsOf(id))
       THEN {p \in {ParentsOf(id).list[i] : i \in 1..Len(ParentsOf(id).list)} :
                  IsStr64(p)}
       ELSE {}
\* The set reachable from the ids of S through manifest parents.
RECURSIVE ReachableFrom(_)
ReachableFrom(S) ==
    LET T == S \cup UNION {FollowedFrom(id) : id \in S}
    IN  IF T = S THEN S ELSE ReachableFrom(T)

\* verify_reachable(root, replay=False) returns its result.
ReachableReturns ==
    vreach.pc = "vr_pop" /\ vreach.stack = <<>> /\ ~vreach.replay /\ vreach'.pc = "idle"
\* The loop of verify_reachable calls verify_node.
ReachableVerifies == vn.pc = "idle" /\ vn'.pc = "vn_check" /\ vreach'.pc = "vr_verify"

\* C22: verify_reachable(root) applies verify_node once to each node of the
\* set reachable from root through manifest parents and to no node twice;
\* it returns ok exactly when every one of these nodes verifies ok (its
\* manifest read); every error of the result carries the id of a node that
\* does not verify, and every such node has an error.
C22_EachReachableOnce ==
    [][/\ ReachableVerifies =>
             /\ vn'.node_id \notin vreach.seen
             /\ vreach'.seen = vreach.seen \cup {vn'.node_id}
       /\ (vreach.pc # "idle" /\ vreach'.pc # "idle" /\ ~ReachableVerifies) =>
             vreach'.seen = vreach.seen
       /\ ReachableReturns =>
             LET R == ReachableFrom({vreach.root_id})
             IN  /\ vreach.seen = R
                 /\ ~IsRaised(ret')
                 /\ ret'.ok <=> \A id \in R : Verified(id)
                 /\ \A k \in 1..Len(ret'.errors) :
                       /\ ret'.errors[k].prefix \in R
                       /\ ~Verified(ret'.errors[k].prefix)
                 /\ \A id \in R : ~Verified(id) =>
                       \E k \in 1..Len(ret'.errors) : ret'.errors[k].prefix = id]_vars

\* verify_reachable has returned ok for a diamond: env_id, the parent of
\* both parents of the root, is reached on two paths.
C22_Witness ==
    /\ ret.fn = "verify"
    /\ RetOk(ret)
    /\ vreach.pc = "idle"
    /\ ParentsOf(out_id).list = <<p1_id, t_id>>
    /\ Readable(p1_id) /\ ParentsOf(p1_id).list = <<env_id>>
    /\ Readable(t_id) /\ ParentsOf(t_id).list = <<env_id>>

\* C23: verify_reachable, once called, comes to its end on every set of
\* manifests, also where the parents form a cycle, a self-reference or a
\* diamond, and every node it verifies is a node reachable from the root that
\* it has not verified before.
C23_Terminates ==
    /\ (vreach.pc # "idle") ~> (vreach.pc = "idle")
    /\ [][ReachableVerifies =>
             /\ vn'.node_id \in ReachableFrom({vreach.root_id})
             /\ vn'.node_id \notin vreach.seen]_vars

\* verify_reachable has returned for a cycle: the root is a parent of its
\* parent p1_id.
C23_Witness ==
    /\ ret.fn = "verify"
    /\ vreach.pc = "idle"
    /\ ParentsOf(out_id).list[1] = p1_id
    /\ Readable(p1_id) /\ ParentsOf(p1_id).list = <<out_id>>

----------------------------------------------------------------------------
(* C24                                                                      *)

\* A call of verify_node or verify_reachable ends.
VerifyEnds == ret = NoReturn /\ ret' # NoReturn

\* C24: verify_node and verify_reachable, run while an ingest is part-way
\* through storing the blob or writing the manifest of a node, end with a
\* result and not with an exception, and verify_node does not return ok
\* for a node whose manifest or object is missing or incomplete.
C24_VerifyToleratesIngest ==
    [][VerifyEnds =>
          /\ ~IsRaised(ret')
          /\ (vn.pc = "vn_check" /\ vn.ret_to = "caller" /\ ret'.ok) =>
                (Readable(vn.node_id) /\ ObjectIntact(vn.node_id))]_vars

----------------------------------------------------------------------------
(* C25                                                                      *)

\* put returns.
PutReturns == commands' = commands + 1 /\ verdict'.fn = "put"
\* put returns a digest that an earlier put of the same data and the same
\* ordered parents has stored.
PutAgain == PutReturns /\ verdict'.h \in DOMAIN memory

\* C25: put, called again with the data and the ordered parents of an entry,
\* returns the digest that entry is stored under, leaves the number of
\* entries as it is and keeps the entry that was stored first; every put
\* returns the digest of the data and parents its entry holds.
C25_PutIdempotent ==
    [][/\ PutAgain =>
             /\ Cardinality(DOMAIN memory') = Cardinality(DOMAIN memory)
             /\ memory' = memory
             /\ NodeDigest(memory[verdict'.h].data, memory[verdict'.h].parents)
                   = verdict'.h
       /\ PutReturns =>
             /\ verdict'.h \in DOMAIN memory'
             /\ NodeDigest(memory'[verdict'.h].data, memory'[verdict'.h].parents)
                   = verdict'.h]_vars

\* The input data have been put twice with the input node as parent: memory
\* holds the one entry.
C25_Witness ==
    /\ verdict.fn = "put"
    /\ verdict.h = NodeDigest(InputData, <<InputId>>)
    /\ commands = 2
    /\ DOMAIN memory = {verdict.h}

----------------------------------------------------------------------------
(* C26                                                                      *)

\* The loop of replay_and_verify stands at a step, the receipts validated
\* and all earlier steps passed.
StepReached == critic.pc = "rv_step" /\ critic.i <= Len(critic.proof.steps)
\* replay_and_verify returns at the end of the loop.
LoopEnded == critic.pc = "rv_step" /\ critic.i > Len(critic.proof.steps)
InputsInMemory(step) == \A k \in 1..Len(step.inputs) : step.inputs[k] \in DOMAIN memory

\* C26: when the loop of replay_and_verify reaches a step one of whose input
\* digests is not in memory, the call returns (false, MISSING_MEMNODE) and
\* puts nothing; a call that returns ACCEPT has found the inputs of every
\* step in memory.
C26_MissingMemnode ==
    [][/\ (StepReached /\ ~InputsInMemory(critic.proof.steps[critic.i])
              /\ critic' # critic) =>
             /\ verdict' = [fn |-> "replay_and_verify", ok |-> FALSE,
                            code |-> "MISSING_MEMNODE"]
             /\ critic'.pc = "idle"
             /\ memory' = memory
       /\ (StepReached /\ critic' # critic /\ critic'.pc = "rv_step") =>
             InputsInMemory(critic.proof.steps[critic.i])
       /\ (LoopEnded /\ critic' # critic /\ verdict'.ok) =>
             \A j \in 1..Len(critic.proof.steps) :
                InputsInMemory(critic.proof.steps[j])]_vars

\* The call has replayed the first step of a proof, whose output is now in
\* memory, and found an input of the second step missing.
C26_Witness ==
    /\ verdict.fn = "replay_and_verify"
    /\ verdict.code = "MISSING_MEMNODE"
    /\ commands = 1
    /\ FirstStep.output_node \in DOMAIN memory

----------------------------------------------------------------------------
(* C27                                                                      *)

\* The receipt code of the dependency h: of the first of the five checks
\* that fails, in the order they are listed, or "OK".
ReceiptCode(h) ==
    IF h \notin DOMAIN memory THEN "MISSING_RECEIPT_NODE"
    ELSE IF DOMAIN memory[h].data # {"json"} \/ ~isinstance_dict(memory[h].data.json)
       THEN "BAD_RECEIPT_ENCODING"
    ELSE LET r == memory[h].data.json.dict
         IN  IF "law_hash" \notin DOMAIN r \/ r.law_hash # critic.law_hash
                THEN "RECEIPT_LAW_MISMATCH"
             ELSE IF ~({"output_node", "phase", "goal_id"} \subseteq DOMAIN r)
                THEN "BAD_RECEIPT_SCHEMA"
             ELSE IF r.output_node \notin DOMAIN memory
                THEN "MISSING_RECEIPT_OUTPUT_NODE"
             ELSE "OK"
\* The dependencies that fail a check.
BadDeps(proof) ==
    {k \in 1..Len(proof.receipt_deps) : ReceiptCode(proof.receipt_deps[k]) # "OK"}
FirstBadDep(proof) == CHOOSE k \in BadDeps(proof) : \A j \in BadDeps(proof) : k <= j
\* replay_and_verify passes or fails the checks made before the steps.
ReceiptsChecked == critic.pc = "rv_receipts" /\ critic' # critic

\* C27 as stated: whenever a receipt dependency of the proof fails one of
\* the five checks, replay_and_verify returns the code of that check before
\* it evaluates a step, and it accepts only proofs all of whose receipt
\* dependencies pass.
C27_ReceiptCodeAlways ==
    [][/\ (ReceiptsChecked /\ BadDeps(critic.proof) # {}) =>
             /\ verdict'.fn = "replay_and_verify"
             /\ ~verdict'.ok
             /\ verdict'.code =
                   ReceiptCode(critic.proof.receipt_deps[FirstBadDep(critic.proof)])
             /\ memory' = memory
       /\ (LoopEnded /\ critic' # critic /\ verdict'.ok) =>
             BadDeps(critic.proof) = {}]_vars

\* C27, amended: for a proof that has steps, whenever a receipt dependency
\* fails one of the five checks, replay_and_verify returns the code of the
\* first check that fails for the first such dependency, before it evaluates
\* a step; a proof without steps gets EMPTY_PROOF whatever its dependencies
\* are; only proofs all of whose receipt dependencies pass are accepted.
C27_ReceiptCodeOfProofWithSteps ==
    [][/\ (ReceiptsChecked /\ critic.proof.steps # <<>>
              /\ BadDeps(critic.proof) # {}) =>
             /\ verdict'.fn = "replay_and_verify"
             /\ ~verdict'.ok
             /\ verdict'.code =
                   ReceiptCode(critic.proof.receipt_deps[FirstBadDep(critic.proof)])
             /\ memory' = memory
       /\ (ReceiptsChecked /\ critic.proof.steps = <<>>) =>
             /\ verdict'.fn = "replay_and_verify"
             /\ verdict'.code = "EMPTY_PROOF"
       /\ (ReceiptsChecked /\ critic'.pc = "rv_step") => BadDeps(critic.proof) = {}
       /\ (LoopEnded /\ critic' # critic /\ verdict'.ok) =>
             BadDeps(critic.proof) = {}]_vars

\* The receipt in memory names an output that is not in memory, and the
\* call has returned the code for it.
C27_Witness ==
    /\ verdict.fn = "replay_and_verify"
    /\ verdict.code = "MISSING_RECEIPT_OUTPUT_NODE"
    /\ NodeDigest(BadReceipts[1], <<>>) \in DOMAIN memory
    /\ DeadBeef \notin DOMAIN memory

----------------------------------------------------------------------------
(* C28                                                                      *)

\* The digest of the recomputed payload of the step, put with parents =
\* step.inputs, the inputs read from store.
Recomputed(store, step) ==
    NodeDigest(opcode_eval(step, [k \in 1..Len(step.inputs) |-> store[step.inputs[k]]]),
               step.inputs)
StepTaken == StepReached /\ critic' # critic

\* C28: a step whose recomputed digest differs from its output_node ends the
\* call with REPLAY_MISMATCH, a step whose digest is equal does not; the
\* recomputed node is put under that digest; and when ACCEPT is returned,
\* every step of the proof recomputes to its declared output_node.
C28_AcceptOnlyRecomputed ==
    [][/\ (StepTaken /\ InputsInMemory(critic.proof.steps[critic.i])) =>
             LET step == critic.proof.steps[critic.i]
             IN  /\ Recomputed(memory, step) \in DOMAIN memory'
                 /\ memory'[Recomputed(memory, step)].parents = step.inputs
                 /\ (Recomputed(memory, step) # step.output_node) =>
                       verdict' = [fn |-> "replay_and_verify", ok |-> FALSE,
                                   code |-> "REPLAY_MISMATCH"]
                 /\ (Recomputed(memory, step) = step.output_node) =>
                       (critic'.pc = "idle" => verdict'.code # "REPLAY_MISMATCH")
       /\ (LoopEnded /\ critic' # critic /\ verdict'.ok) =>
             /\ verdict'.code = "ACCEPT"
             /\ \A j \in 1..Len(critic.proof.steps) :
                   /\ InputsInMemory(critic.proof.steps[j])
                   /\ Recomputed(memory, critic.proof.steps[j])
                         = critic.proof.steps[j].output_node]_vars

\* The proof of two steps, the second over the output of the first, has
\* been accepted.
C28_Witness ==
    /\ verdict.fn = "replay_and_verify"
    /\ verdict.code = "ACCEPT"
    /\ commands = 1
    /\ ChainedStep.output_node \in DOMAIN memory

----------------------------------------------------------------------------
(* C29                                                                      *)

\* The allowlist of the phases.
Allowlist(P) ==
    IF P = "INGEST" THEN {"PARSE"}
    ELSE IF P = "TRAVERSE" THEN {"EXTRACT"}
    ELSE IF P \in {"ANALYZE", "HYPOTHESIZE"} THEN {"EXTRACT", "AGGREGATE", "INFER"}
    ELSE IF P = "DECIDE" THEN {"DECIDE"}
    ELSE {"ACT"}
Permitted(P, step) ==
    /\ step.step_type \in Allowlist(P)
    /\ step.step_type \in {"INFER", "DECIDE", "ACT"} => Len(step.inputs) >= 1

\* C29: with the two built-in monitors installed, a call that returns ACCEPT
\* in phase P has steps whose types are all in the allowlist of P, INFER,
\* DECIDE and ACT steps with at least one input, and no ENTITY_BIND step; a
\* step that recomputes and is not permitted ends the call with
\* MONITOR_REJECT.
C29_AcceptOnlyPermitted ==
    [][critic.monitors = BuiltinMonitors =>
          /\ (LoopEnded /\ critic' # critic /\ verdict'.ok) =>
                \A j \in 1..Len(critic.proof.steps) :
                   /\ Permitted(critic.phase, critic.proof.steps[j])
                   /\ critic.proof.steps[j].step_type # "ENTITY_BIND"
          /\ (StepTaken /\ InputsInMemory(critic.proof.steps[critic.i])
                 /\ Recomputed(memory, critic.proof.steps[critic.i])
                       = critic.proof.steps[critic.i].output_node
                 /\ ~Permitted(critic.phase, critic.proof.steps[critic.i])) =>
                verdict' = [fn |-> "replay_and_verify", ok |-> FALSE,
                            code |-> "MONITOR_REJECT"]]_vars

\* An ENTITY_BIND step has been recomputed, its node is in memory, and the
\* built-in monitors have rejected it.
C29_Witness ==
    /\ critic.monitors = BuiltinMonitors
    /\ verdict.fn = "replay_and_verify"
    /\ verdict.code = "MONITOR_REJECT"
    /\ Sound(PutAll(<<InputData>>), "ENTITY_BIND", <<InputId>>).output_node
          \in DOMAIN memory

----------------------------------------------------------------------------
(* C30                                                                      *)

\* replay_and_verify returns.
CriticEnds == critic.pc # "idle" /\ critic'.pc = "idle"
\* Every step of the proof recomputes to its declared output on the memory
\* the call leaves.
AllRecompute(proof) ==
    \A j \in 1..Len(proof.steps) :
       /\ \A k \in 1..Len(proof.steps[j].inputs) :
             proof.steps[j].inputs[k] \in DOMAIN memory'
       /\ NodeDigest(opcode_eval(proof.steps[j],
                        [k \in 1..Len(proof.steps[j].inputs) |->
                            memory'[proof.steps[j].inputs[k]]]),
                     proof.steps[j].inputs) = proof.steps[j].output_node
\* Every monitor of the critic lets every step of the proof pass.
AllPass(monitors, phase, proof) ==
    \A j \in 1..Len(proof.steps), k \in 1..Len(monitors) :
       IF monitors[k] = "PhaseAllowlistMonitor"
          THEN proof.steps[j].step_type \in Allowlist(phase)
          ELSE proof.steps[j].step_type \in {"INFER", "DECIDE", "ACT"} =>
                  Len(proof.steps[j].inputs) >= 1
ExactlyOneAct(proof) == Len(proof.steps) = 1 /\ proof.steps[1].step_type = "ACT"

\* C30 as stated: in phase ACT a call for a proof whose receipts are valid
\* and whose steps all recompute returns BAD_ACT_SHAPE whenever the proof is
\* not exactly one step of type ACT: when it has more than one step and when
\* its sole step has another type.
C30_BadActShapeAlways ==
    [][(CriticEnds /\ critic.phase = "ACT" /\ critic.proof.steps # <<>>
           /\ BadDeps(critic.proof) = {}
           /\ AllRecompute(critic.proof) /\ ~ExactlyOneAct(critic.proof)) =>
          verdict' = [fn |-> "replay_and_verify", ok |-> FALSE,
                      code |-> "BAD_ACT_SHAPE"]]_vars

\* C30, amended: in phase ACT a call for a proof that has steps, whose
\* receipts are valid, whose steps all recompute and all pass the monitors of
\* the critic returns BAD_ACT_SHAPE whenever the proof is not exactly one
\* step of type ACT; when a step does not pass the monitors the call returns
\* MONITOR_REJECT, as it does with the built-in monitors for every step of
\* another type.
C30_BadActShapeAfterMonitors ==
    [][(CriticEnds /\ critic.phase = "ACT" /\ critic.proof.steps # <<>>
           /\ BadDeps(critic.proof) = {} /\ AllRecompute(critic.proof)) =>
          /\ (AllPass(critic.monitors, "ACT", critic.proof)
                 /\ ~ExactlyOneAct(critic.proof)) =>
                verdict' = [fn |-> "replay_and_verify", ok |-> FALSE,
                            code |-> "BAD_ACT_SHAPE"]
          /\ ~AllPass(critic.monitors, "ACT", critic.proof) =>
                verdict' = [fn |-> "replay_and_verify", ok |-> FALSE,
                            code |-> "MONITOR_REJECT"]
          /\ (AllPass(critic.monitors, "ACT", critic.proof)
                 /\ ExactlyOneAct(critic.proof)) =>
                verdict'.code = "ACCEPT"]_vars

\* A critic with the built-in monitors has returned BAD_ACT_SHAPE: for a
\* proof of two ACT steps.
C30_Witness ==
    /\ critic.monitors = BuiltinMonitors
    /\ verdict.fn = "replay_and_verify"
    /\ verdict.code = "BAD_ACT_SHAPE"

----------------------------------------------------------------------------
(* C31                                                                      *)

\* The critic has returned to submit, and submit returns.
SubmitEnds == controller.pc = "submit" /\ controller'.pc = "idle"
\* The declared output of the last step of the proof.
LastOutput(proof) == proof.steps[Len(proof.steps)].output_node

\* C31: when the critic has accepted the proof, submit returns
\* (true, COMMITTED); last_receipt_id is then the digest of a MemNode in
\* memory whose data are the canonical JSON of law_hash, the name of the
\* current phase, the goal id and the declared output of the last step, and
\* whose parents are that output alone; the output is in memory too.
C31_CommitMintsReceipt ==
    [][(SubmitEnds /\ verdict.ok) =>
          LET D == LastOutput(controller.proof)
              r == controller'.last_receipt_id
          IN  /\ verdict' = [fn |-> "submit", ok |-> TRUE, code |-> "COMMITTED"]
              /\ r \in DOMAIN memory'
              /\ memory'[r].data =
                    [json |-> [dict |->
                       [law_hash |-> critic.law_hash,
                        phase |-> [str |-> controller.phase],
                        goal_id |-> [str |-> controller.proof.goal_id],
                        output_node |-> D]]]
              /\ memory'[r].parents = <<D>>
              /\ r = NodeDigest(memory'[r].data, memory'[r].parents)
              /\ D \in DOMAIN memory']_vars

\* The proof of two chained steps has been committed in phase ANALYZE, and
\* the receipt in memory has the output of the second step as its parent.
C31_Witness ==
    /\ verdict = [fn |-> "submit", ok |-> TRUE, code |-> "COMMITTED"]
    /\ controller.phase = "ANALYZE"
    /\ controller.last_receipt_id \in DOMAIN memory
    /\ memory[controller.last_receipt_id].parents = <<ChainedStep.output_node>>

----------------------------------------------------------------------------
(* C32                                                                      *)

\* The node holds a receipt: a JSON object with a law_hash.
IsReceipt(n) ==
    /\ DOMAIN n.data = {"json"}
    /\ isinstance_dict(n.data.json)
    /\ "law_hash" \in DOMAIN n.data.json.dict

\* C32: when the critic has rejected the proof, submit returns (false, code)
\* with the code the critic returned, puts nothing, none of the nodes the
\* call has added to memory is a receipt, and last_receipt_id and the phase
\* are what they were; as long as submit runs, they do not change.
C32_RejectPropagates ==
    [][/\ (SubmitEnds /\ ~verdict.ok) =>
             /\ verdict.fn = "replay_and_verify"
             /\ verdict' = [fn |-> "submit", ok |-> FALSE, code |-> verdict.code]
             /\ memory' = memory
             /\ \A h \in DOMAIN memory' \ DOMAIN audit.before :
                   ~IsReceipt(memory'[h])
             /\ controller'.last_receipt_id = controller.last_receipt_id
             /\ controller'.phase = controller.phase
       /\ (controller.pc = "submit" /\ ~SubmitEnds) =>
             /\ controller'.last_receipt_id = controller.last_receipt_id
             /\ controller'.phase = controller.phase]_vars

\* submit has returned REPLAY_MISMATCH for the proof whose second step
\* declares another output, in phase TRAVERSE, after a commit: the last
\* receipt is the one of that commit.
C32_Witness ==
    /\ verdict = [fn |-> "submit", ok |-> FALSE, code |-> "REPLAY_MISMATCH"]
    /\ controller.phase = "TRAVERSE"
    /\ controller.last_receipt_id # None
    /\ FirstStep.output_node \in DOMAIN memory

----------------------------------------------------------------------------
(* C33                                                                      *)

\* No call of the proof kernel is running.
KernelAtRest == critic.pc = "idle" /\ controller.pc = "idle"

\* C33: the controller starts in phase INGEST without a last receipt;
\* whenever no call is running, advance_phase can be called with each of the
\* six phases, whatever the current phase is, and the phase is then the one
\* it was called with, the last receipt and the memory being left alone; no
\* step of submit, whether it commits or fails, changes the phase.
C33_PhaseIsSetFreely ==
    /\ controller.phase = "INGEST" /\ controller.last_receipt_id = None
    /\ [](KernelAtRest =>
            \A p \in Phase : ENABLED (advance_phase(p) /\ Observed))
    /\ [][/\ (KernelAtRest /\ verdict'.fn = "advance_phase") =>
                /\ controller'.phase = verdict'.phase
                /\ controller'.last_receipt_id = controller.last_receipt_id
                /\ memory' = memory
          /\ (controller.pc = "submit" \/ controller'.pc = "submit") =>
                controller'.phase = controller.phase]_vars

\* The controller has been moved back from phase ACT to phase TRAVERSE after
\* a commit in phase ACT.
C33_Witness ==
    /\ verdict = [fn |-> "advance_phase", phase |-> "TRAVERSE"]
    /\ controller.phase = "TRAVERSE"
    /\ \E c \in audit.committed : c.phase = "ACT"

----------------------------------------------------------------------------
(* C34                                                                      *)

----------------------------------------------------------------------------
(* C35                                                                      *)

\* C35: replay_and_verify returns the code of the first check that fails, in
\* this order: EMPTY_PROOF; the five checks of each receipt dependency, the
\* dependencies in declared order; for each step in declared order, all the
\* steps before it having passed, MISSING_MEMNODE, then REPLAY_MISMATCH
\* without a monitor being called, then MONITOR_REJECT from the first monitor
\* in declared order that rejects, the monitors after it not being called; at
\* the end BAD_ACT_SHAPE, and ACCEPT otherwise.  The step that fails ends
\* the call: it puts at most its own node, and nothing is evaluated until
\* the next call.
C35_FirstFailingCheck ==
    [][LET proof == critic.proof
           Fails(code) ==
               /\ verdict' = [fn |-> "replay_and_verify", ok |-> FALSE, code |-> code]
               /\ critic'.pc = "idle"
           Rejecting(step) ==
               {k \in 1..Len(critic.monitors) :
                   IF critic.monitors[k] = "PhaseAllowlistMonitor"
                      THEN step.step_type \notin Allowlist(critic.phase)
                      ELSE /\ step.step_type \in {"INFER", "DECIDE", "ACT"}
                           /\ Len(step.inputs) = 0}
           Passed(step) ==
               /\ InputsInMemory(step)
               /\ Recomputed(memory, step) = step.output_node
               /\ Rejecting(step) = {}
       IN  /\ ReceiptsChecked =>
                /\ memory' = memory
                /\ IF proof.steps = <<>> THEN Fails("EMPTY_PROOF")
                   ELSE IF BadDeps(proof) # {}
                      THEN Fails(ReceiptCode(proof.receipt_deps[FirstBadDep(proof)]))
                   ELSE critic'.pc = "rv_step" /\ critic'.i = 1 /\ verdict' = verdict
           /\ StepTaken =>
                LET step == proof.steps[critic.i]
                IN  /\ BadDeps(proof) = {}
                    /\ \A j \in 1..(critic.i - 1) : Passed(proof.steps[j])
                    /\ IF ~InputsInMemory(step)
                          THEN /\ Fails("MISSING_MEMNODE")
                               /\ memory' = memory
                               /\ called' = <<>>
                       ELSE /\ DOMAIN memory' =
                                  DOMAIN memory \cup {Recomputed(memory, step)}
                            /\ IF Recomputed(memory, step) # step.output_node
                                  THEN Fails("REPLAY_MISMATCH") /\ called' = <<>>
                               ELSE IF Rejecting(step) # {}
                                  THEN /\ Fails("MONITOR_REJECT")
                                       /\ \E k \in Rejecting(step) :
                                             /\ \A j \in Rejecting(step) : k <= j
                                             /\ called' = SubSeq(critic.monitors, 1, k)
                               ELSE /\ critic'.pc = "rv_step"
                                    /\ critic'.i = critic.i + 1
                                    /\ verdict' = verdict
                                    /\ called' = critic.monitors
           /\ (LoopEnded /\ critic' # critic) =>
                /\ memory' = memory
                /\ BadDeps(proof) = {}
                /\ \A j \in 1..Len(proof.steps) : Passed(proof.steps[j])
                /\ IF critic.phase = "ACT" /\ ~ExactlyOneAct(proof)
                      THEN Fails("BAD_ACT_SHAPE")
                      ELSE verdict' = [fn |-> "replay_and_verify", ok |-> TRUE,
                                       code |-> "ACCEPT"]
           /\ (critic.pc = "idle" /\ critic'.pc = "idle") =>
                /\ called' = <<>>
                /\ memory' # memory => verdict'.fn = "put"]_vars

\* The first of the two built-in monitors has rejected a step that
\* recomputed, whose node is in memory, and the second has not been called.
C35_Witness ==
    /\ verdict = [fn |-> "replay_and_verify", ok |-> FALSE, code |-> "MONITOR_REJECT"]
    /\ critic.monitors = BuiltinMonitors
    /\ called = <<"PhaseAllowlistMonitor">>
    /\ FirstStep.output_node \in DOMAIN memory

----------------------------------------------------------------------------
(* C36                                                                      *)

\* C36: the memory only grows.  The digests that put has returned, to a
\* client, to the critic or to submit, are the keys of the memory, and each
\* key is the digest of the data and the parents of its node; no step of
\* put, replay_and_verify or submit removes an entry or changes its node, so
\* the node is that of the first put ever after; get(h) returns the node
\* under h, and raises KeyError for a digest that put never returned.
C36_MemoryOnlyGrows ==
    /\ [](/\ audit.puts = DOMAIN memory
          /\ \A h \in DOMAIN memory :
                h = NodeDigest(memory[h].data, memory[h].parents))
    /\ [][/\ \A h \in DOMAIN memory :
                h \in DOMAIN memory' /\ memory'[h] = memory[h]
          /\ (KernelAtRest /\ verdict'.fn = "put") =>
                verdict'.h \in DOMAIN memory'
          /\ (KernelAtRest /\ verdict'.fn = "get") =>
                /\ memory' = memory
                /\ verdict' =
                      IF verdict'.h \in audit.puts
                         THEN [fn |-> "get", h |-> verdict'.h,
                               node |-> memory[verdict'.h]]
                         ELSE [fn |-> "get", h |-> verdict'.h,
                               raised |-> "KeyError"]]_vars

\* After a commit and a second call, get has returned the receipt: the node
\* that submit put, with the final node of the proof as its parent.
C36_Witness ==
    /\ verdict.fn = "get"
    /\ commands = 2
    /\ verdict.h = controller.last_receipt_id
    /\ "node" \in DOMAIN verdict
    /\ verdict.node = memory[verdict.h]
    /\ Len(verdict.node.parents) = 1

----------------------------------------------------------------------------
(* C37                                                                      *)

\* C37 as stated: when replay_and_verify returns a failure code, the memory
\* holds exactly the entries it held when the call began.
C37_RejectLeavesMemory ==
    [][(CriticEnds /\ ~verdict'.ok) => memory' = audit.before]_vars

\* C37, amended: when replay_and_verify returns a failure code, the memory
\* holds the entries it held when the call began, unchanged, and besides
\* them the recomputed node of every step the call evaluated: of the steps
\* before the failing one and, unless the code is MISSING_MEMNODE, of the
\* failing step itself, whose node is put before its digest is compared and
\* before the monitors are asked; of all steps when the code is
\* BAD_ACT_SHAPE.  The memory is exactly what it was only when a check made
\* before the steps fails or the first step misses an input.
C37_RejectKeepsEvaluatedSteps ==
    [][(CriticEnds /\ ~verdict'.ok) =>
          LET proof == critic.proof
              evaluated ==
                  IF verdict'.code \in {"REPLAY_MISMATCH", "MONITOR_REJECT"}
                     THEN 1..critic.i
                  ELSE IF verdict'.code = "MISSING_MEMNODE" THEN 1..(critic.i - 1)
                  ELSE IF verdict'.code = "BAD_ACT_SHAPE" THEN 1..Len(proof.steps)
                  ELSE {}
          IN  /\ \A h \in DOMAIN audit.before :
                    h \in DOMAIN memory' /\ memory'[h] = audit.before[h]
              /\ DOMAIN memory' =
                    DOMAIN audit.before
                       \cup {Recomputed(memory', proof.steps[j]) : j \in evaluated}
              /\ \A j \in evaluated :
                    memory'[Recomputed(memory', proof.steps[j])].parents
                       = proof.steps[j].inputs
              /\ evaluated = {} => memory' = audit.before]_vars

\* replay_and_verify has returned MONITOR_REJECT, and the memory holds the
\* node of the rejected step, which it did not hold when the call began.
C37_Witness ==
    /\ verdict = [fn |-> "replay_and_verify", ok |-> FALSE, code |-> "MONITOR_REJECT"]
    /\ FirstStep.output_node \in DOMAIN memory
    /\ FirstStep.output_node \notin DOMAIN audit.before

----------------------------------------------------------------------------
(* C38                                                                      *)

\* The five codes of _validate_receipts.
ReceiptCodes ==
    {"MISSING_RECEIPT_NODE", "BAD_RECEIPT_ENCODING", "RECEIPT_LAW_MISMATCH",
     "BAD_RECEIPT_SCHEMA", "MISSING_RECEIPT_OUTPUT_NODE"}

\* C38: in every state after a submit has returned COMMITTED, the receipt it
\* minted passes the five checks of the critic; a call of replay_and_verify,
\* by a client or by submit, for a proof whose receipt dependencies are
\* all receipts of commits passes the validation of the receipts and goes on
\* to the steps, and never returns one of the five receipt codes, in whatever
\* phase it is made and whatever the goal of the proof.
C38_CommittedReceiptIsValid ==
    /\ [](\A c \in audit.committed :
             /\ _validate_receipts(<<c.id>>, 1) = "OK"
             /\ ReceiptCode(c.id) = "OK")
    /\ [][(/\ critic.proof.receipt_deps # <<>>
           /\ \A k \in 1..Len(critic.proof.receipt_deps) :
                 \E c \in audit.committed : c.id = critic.proof.receipt_deps[k]) =>
             /\ (ReceiptsChecked /\ critic.proof.steps # <<>>) =>
                   critic'.pc = "rv_step"
             /\ CriticEnds => verdict'.code \notin ReceiptCodes]_vars

\* Two proofs have been committed in phase INGEST, the second, for another
\* goal, with the receipt of the first as its receipt dependency.
C38_Witness ==
    /\ verdict = [fn |-> "submit", ok |-> TRUE, code |-> "COMMITTED"]
    /\ \E c, d \in audit.committed :
          /\ d.proof.receipt_deps = <<c.id>>
          /\ d.proof.goal_id = "h"
          /\ d.id = controller.last_receipt_id
          /\ d.id # c.id

----------------------------------------------------------------------------
(* C39                                                                      *)

\* C39: the receipt of a commit is the node of the law hash, the phase, the
\* goal and the final output of the proof, with that output as its only
\* parent, whatever was committed before; so commits that agree in these
\* have the same receipt, and a submit that commits a proof already
\* committed in the same phase sets last_receipt_id to the digest of the
\* first commit and leaves the memory as it was when the call began.
C39_ResubmitSameReceipt ==
    /\ [](\A c \in audit.committed :
             /\ c.id =
                   NodeDigest([json |-> [dict |->
                                  [law_hash |-> critic.law_hash,
                                   phase |-> [str |-> c.phase],
                                   goal_id |-> [str |-> c.proof.goal_id],
                                   output_node |-> LastOutput(c.proof)]]],
                              <<LastOutput(c.proof)>>)
             /\ \A d \in audit.committed :
                   (/\ d.phase = c.phase
                    /\ d.proof.goal_id = c.proof.goal_id
                    /\ LastOutput(d.proof) = LastOutput(c.proof)) => d.id = c.id)
    /\ [][(SubmitEnds /\ verdict.ok) =>
             \A c \in audit.committed :
                (c.proof = controller.proof /\ c.phase = controller.phase) =>
                   /\ verdict' = [fn |-> "submit", ok |-> TRUE, code |-> "COMMITTED"]
                   /\ controller'.last_receipt_id = c.id
                   /\ memory' = audit.before]_vars

\* A submit has committed a proof whose receipt was in memory when the call
\* began, and one proof has been committed in all: the call was the second
\* submit of that proof, and the memory is what it was before it.
C39_Witness ==
    /\ verdict = [fn |-> "submit", ok |-> TRUE, code |-> "COMMITTED"]
    /\ controller.last_receipt_id \in DOMAIN audit.before
    /\ memory = audit.before
    /\ Cardinality(audit.committed) = 1

----------------------------------------------------------------------------
(* C40                                                                      *)

\* C40: when replay_node has run the transform and returns ok, the run made
\* in this call has written out.bin; when the transform has exited with
\* status 0 and has not written out.bin, replay_node returns the error
\* "transform produced no output", also in a working directory of the caller
\* that holds the out.bin of an earlier run.
C40_OkOnlyIfWritten ==
    [][(rp.pc = "rp_check" /\ rp'.pc = "idle" /\ rp.ret_to = "caller") =>
          /\ (~IsRaised(ret') /\ ret'.ok) => wrote
          /\ (rp.proc.returncode = 0 /\ ~wrote) =>
                ret' = ReplayResult(FALSE,
                          <<Err("transform produced no output (missing out.bin)")>>,
                          None, rp.wd)]_vars

====
